---------------------------- MODULE Spec2Model ----------------------------
(***************************************************************************)
(* Model of the video backend: the four-tier JWT scheme of                 *)
(* app/utils/jwt_utils.py, the auth routes of app/routes/auth.py and the   *)
(* URL cache, resolver and stream relay of app/routes/video.py.            *)
(*                                                                         *)
(* Time is the integer number of seconds of the wall clock.  PyJWT encodes *)
(* exp and iat as whole seconds and rejects a token once exp <= now, so    *)
(* whole seconds lose nothing for the token tiers.                         *)
(***************************************************************************)
EXTENDS Integers, Sequences, FiniteSets, TLC

(***************************************************************************)
(* Bounds of the model.                                                    *)
(***************************************************************************)
MaxIssued == 2        \* tokens handed to clients that the model follows
MaxDrift == 1         \* seconds the clock may advance inside one handler
MaxTicks == 2         \* jumps of the clock to a later expiry instant
MaxReseeds == 1       \* calls of /admin/reseed
MaxLog == 2           \* completed resolutions the history remembers
MaxChunks == 2        \* chunks the upstream hands over for one body
MaxWatches == 2       \* calls of POST /video/<video_id>/watch

(***************************************************************************)
(* Program constants: app/config.py and app/routes/video.py.               *)
(***************************************************************************)
JWT_ACCESS_TOKEN_EXPIRES == 900
REFRESH_TOKEN_EXPIRES == 604800
PLAYBACK_TOKEN_EXPIRES == 300
INTERNAL_TOKEN_EXPIRES == 60
CACHE_DURATION == 300

Tiers == {"access", "refresh", "playback", "internal"}

\* Config reads each secret from the environment and falls back to its own
\* default: the four defaults are distinct, but a deployment may export the
\* same value for all four variables.
DefaultSecrets ==
    [tier \in Tiers |->
        CASE tier = "access" -> "super-secret-jwt-key"
          [] tier = "refresh" -> "refresh-secret-key"
          [] tier = "playback" -> "playback-secret-key"
          [] tier = "internal" -> "internal-token-secret-key"]

SharedSecrets == [tier \in Tiers |-> "one-secret-for-all"]

Configs == {DefaultSecrets, SharedSecrets}

Lifetime(tier) ==
    CASE tier = "access" -> JWT_ACCESS_TOKEN_EXPIRES
      [] tier = "refresh" -> REFRESH_TOKEN_EXPIRES
      [] tier = "playback" -> PLAYBACK_TOKEN_EXPIRES
      [] tier = "internal" -> INTERNAL_TOKEN_EXPIRES

(***************************************************************************)
(* Identifiers.  A media id is a bson ObjectId; ObjectId(s) accepts the    *)
(* hexadecimal text in either case and str(oid) prints it in lower case.   *)
(***************************************************************************)
UserIds == {"u1"}
YoutubeIds == {"y1", "y2"}

\* Python's None, for values the model keeps as strings
None == "None"

\* str(ObjectId()) of the documents ever inserted, in insertion order: two
\* per seeding of the videos collection
HexIds == <<"a1", "b2", "c3", "d4", "e5", "f6", "a7", "b8">>

\* the ids the n-th seeding inserts
SeedIds(n) == {HexIds[2 * n - 1], HexIds[2 * n]}

\* ObjectId(s): the id a text denotes, None when bson raises InvalidId
ObjectId(s) ==
    IF s = "A1" THEN "a1"
    ELSE IF \E i \in 1..Len(HexIds) : HexIds[i] = s THEN s
    ELSE None

\* the video_id texts a client may put in a URL: the ids of the first
\* seeding, an id of the next one, an upper-case spelling, and a text that
\* is no ObjectId
RequestIds == {HexIds[1], HexIds[2], HexIds[3], "A1", "zz"}

\* the request handler threads that may run get_stream concurrently
HandlerIds == {"h1", "h2"}

VARIABLES
    now,              \* the wall clock, in seconds
    ticks,            \* how many times the clock has moved on
    secrets,          \* Config: tier -> signing key
    users,            \* the users collection: set of user ids
    videos,           \* the videos collection: ObjectId -> document
    seeds,            \* how many times the videos collection was seeded
    issued,           \* tokens returned to clients
    token_blacklist,  \* auth.py: set of logged-out access tokens
    _url_cache,       \* video.py: youtube_id -> <<url, timestamp>>
    pc,               \* per handler thread: position inside get_stream
    local,            \* per handler thread: its local variables
    response,         \* the last response sent to a client
    calls,            \* history: the resolutions that called the extractor
    watch_history,    \* the watch_history documents of one user and video
    registered        \* the users documents inserted by signup, in order

vars == <<now, ticks, secrets, users, videos, seeds, issued, token_blacklist,
          _url_cache, pc, local, response, calls, watch_history, registered>>

(***************************************************************************)
(* Tokens.  jwt.encode(payload, key) signs the claim set with key; the     *)
(* result is determined by the claim set and the key (HS256 has no nonce), *)
(* so a token is modelled as the record of its claims and its key.  A      *)
(* record whose key is None is text that is no JWT at all.                 *)
(***************************************************************************)
Token(key, type, user_id, video_id, exp, iat) ==
    [key |-> key, type |-> type, user_id |-> user_id, video_id |-> video_id,
     exp |-> exp, iat |-> iat]

\* the request carries no token (args.get('token') is None or '';
\* no Authorization header, or one that does not start with 'Bearer ')
NoToken == Token(None, "absent", None, None, 0, 0)

\* the request carries text that does not parse as a JWT
Garbage == Token(None, "garbage", None, None, 0, 0)

\* The payload a decode function returns; NonePayload is Python's None.
NonePayload ==
    [type |-> None, user_id |-> None, video_id |-> None, exp |-> 0, iat |-> 0]

Payload(token) ==
    [type |-> token.type, user_id |-> token.user_id,
     video_id |-> token.video_id, exp |-> token.exp, iat |-> token.iat]

\* jwt.decode with the verification of the signature switched off
jwt_decode_unverified(token, key, t) ==
    IF token.key = None
    THEN [err |-> "InvalidTokenError", payload |-> NonePayload]
    ELSE IF token.exp <= t
    THEN [err |-> "ExpiredSignatureError", payload |-> NonePayload]
    ELSE [err |-> None, payload |-> Payload(token)]

\* jwt.decode(token, key, algorithms=['HS256']) at clock t: the signature is
\* verified first, then exp.  err names the exception raised, None if none.
jwt_decode(token, key, t) ==
    IF token.key = None \/ token.key # key
    THEN [err |-> "InvalidTokenError", payload |-> NonePayload]
    ELSE IF token.exp <= t
    THEN [err |-> "ExpiredSignatureError", payload |-> NonePayload]
    ELSE [err |-> None, payload |-> Payload(token)]

\* generate_*_token: the clock is read once for exp (at t_exp) and once
\* more for iat (at t_iat >= t_exp).
generate_access_token(user_id, t_exp, t_iat) ==
    Token(secrets["access"], "access", user_id, None,
          t_exp + JWT_ACCESS_TOKEN_EXPIRES, t_iat)

generate_refresh_token(user_id, t_exp, t_iat) ==
    Token(secrets["refresh"], "refresh", user_id, None,
          t_exp + REFRESH_TOKEN_EXPIRES, t_iat)

generate_playback_token(video_id, user_id, t_exp, t_iat) ==
    Token(secrets["playback"], "playback", user_id, video_id,
          t_exp + PLAYBACK_TOKEN_EXPIRES, t_iat)

generate_internal_token(video_id, user_id, t_exp, t_iat) ==
    Token(secrets["internal"], "internal", user_id, video_id,
          t_exp + INTERNAL_TOKEN_EXPIRES, t_iat)

\* decode_access_token with the expiry check switched off
decode_access_token_unexpiring(token, t) ==
    LET r == jwt_decode(token, secrets["access"], 0)
    IN  IF r.err # None THEN NonePayload
        ELSE IF r.payload.type # "access" THEN NonePayload
        ELSE r.payload

decode_access_token(token, t) ==
    LET r == jwt_decode(token, secrets["access"], t)
    IN  IF r.err # None THEN NonePayload
        ELSE IF r.payload.type # "access" THEN NonePayload
        ELSE r.payload

decode_refresh_token(token, t) ==
    LET r == jwt_decode(token, secrets["refresh"], t)
    IN  IF r.err # None THEN NonePayload
        ELSE IF r.payload.type # "refresh" THEN NonePayload
        ELSE r.payload

\* decode_playback_token without the test of the type claim
decode_playback_token_untyped(token, t) ==
    LET r == jwt_decode(token, secrets["playback"], t)
    IN  IF r.err # None THEN NonePayload
        ELSE r.payload

decode_playback_token(token, t) ==
    LET r == jwt_decode(token, secrets["playback"], t)
    IN  IF r.err # None THEN NonePayload
        ELSE IF r.payload.type # "playback" THEN NonePayload
        ELSE r.payload

decode_internal_token(token, t) ==
    LET r == jwt_decode(token, secrets["internal"], t)
    IN  IF r.err # None THEN NonePayload
        ELSE IF r.payload.type # "internal" THEN NonePayload
        ELSE r.payload

\* the decode function of a tier
Decode(tier, token, t) ==
    CASE tier = "access" -> decode_access_token(token, t)
      [] tier = "refresh" -> decode_refresh_token(token, t)
      [] tier = "playback" -> decode_playback_token(token, t)
      [] tier = "internal" -> decode_internal_token(token, t)

\* The clock readings of one handler that reads the clock n times after
\* its first reading at now: non-decreasing, at most MaxDrift later.
ClockReads(n) ==
    {r \in [1..n -> now..(now + IF ticks < MaxTicks THEN MaxDrift ELSE 0)] :
        \A i \in 1..(n - 1) : r[i] <= r[i + 1]}

\* the clock stands at t when a handler ends
Advance(t) ==
    /\ now' = t
    /\ ticks' = IF t > now THEN ticks + 1 ELSE ticks

\* what a client can put where a token is expected
Presentable == issued \cup {NoToken, Garbage}

\* room for the tokens of one more response
Fits(new) == Cardinality(issued \cup new) <= MaxIssued

\* the tokens the model goes on following after a response that carries
\* the tokens new: those it followed, and any of the new ones there is
\* room for
Followed(new) == {issued \cup S : S \in {T \in SUBSET new : Fits(T)}}

(***************************************************************************)
(* Responses.  One shape for every route: the JSON error message (None on  *)
(* success), and for the relay the request's Range header, the upstream's  *)
(* status and the headers copied from it; for a streamed body, the chunks  *)
(* received from the upstream and sent on so far, how the body ended, and  *)
(* what caught the exception that ended it.                                *)
(***************************************************************************)
Json(route, status, error) ==
    [route |-> route, status |-> status, error |-> error,
     range |-> None, upstream |-> 0, body |-> "json",
     accept_ranges |-> None,
     content_type |-> None, content_length |-> None, content_range |-> None,
     access_token |-> NoToken, refresh_token |-> NoToken, videos |-> <<>>,
     received |-> 0, sent |-> 0, ended |-> None, caught |-> None]

NoResponse == Json("none", 0, None)

\* jwt_required with a message of its own for an expired token
jwt_required_naming_expiry(route, token, t) ==
    IF token = NoToken
    THEN Json(route, 401, "Authorization token is missing")
    ELSE IF jwt_decode(token, secrets["access"], t).err
               = "ExpiredSignatureError"
    THEN Json(route, 401, "Token has expired")
    ELSE IF decode_access_token(token, t) = NonePayload
    THEN Json(route, 401, "Invalid or expired token")
    ELSE NoResponse

\* jwt_required: the response of the decorator, NoResponse when it lets the
\* request through to the route
jwt_required(route, token, t) ==
    IF token = NoToken
    THEN Json(route, 401, "Authorization token is missing")
    ELSE IF decode_access_token(token, t) = NonePayload
    THEN Json(route, 401, "Invalid or expired token")
    ELSE NoResponse

(***************************************************************************)
(* The stores.                                                             *)
(***************************************************************************)
\* Video.seed_data: inserts the sample videos when the collection is empty
\* (two of the ten sample documents are modelled, all active)
Seeded(n) ==
    [id \in SeedIds(n) |->
        [youtube_id |-> IF id = HexIds[2 * n - 1] THEN "y1" ELSE "y2",
         thumbnail_url |->
             <<"https://img.youtube.com/vi/",
               IF id = HexIds[2 * n - 1] THEN "y1" ELSE "y2",
               "/maxresdefault.jpg">>,
         is_active |-> TRUE]]

\* Video.to_public_dict (title and description are free text, left out)
to_public_dict(vs, id, playback_token) ==
    [id |-> id, thumbnail_url |-> vs[id].thumbnail_url,
     playback_token |-> playback_token]

seed_data(vs, n) == IF DOMAIN vs = {} THEN Seeded(n + 1) ELSE vs

\* Video.find_by_id: the document, or None (also when ObjectId raises)
Video_find_by_id(vs, video_id) ==
    IF ObjectId(video_id) \in DOMAIN vs THEN ObjectId(video_id) ELSE None

\* User.find_by_id
User_find_by_id(us, user_id) == IF user_id \in us THEN user_id ELSE None

\* Video.find_active_paginated: the ids of one page, in insertion order
ActiveSeq(vs) ==
    SelectSeq(HexIds, LAMBDA id : id \in DOMAIN vs /\ vs[id].is_active)

find_active_paginated(vs, page, limit) ==
    LET all == ActiveSeq(vs)
        skip == (page - 1) * limit
    IN  [i \in 1..(IF Len(all) - skip < 0 THEN 0
                   ELSE IF Len(all) - skip < limit THEN Len(all) - skip
                   ELSE limit) |-> all[skip + i]]

(***************************************************************************)
(* The clock.  It moves to the instants at which something changes: one    *)
(* second before and exactly at each expiry (a token's exp, a cache        *)
(* entry's timestamp + CACHE_DURATION).                                    *)
(***************************************************************************)
Deadlines ==
    {tok.exp : tok \in issued}
    \cup {_url_cache[y][2] + CACHE_DURATION : y \in DOMAIN _url_cache}

Tick ==
    /\ \E d \in Deadlines : \E t \in {d - 1, d} :
          /\ now < t
          /\ now' = t
    /\ ticks < MaxTicks
    /\ ticks' = ticks + 1
    /\ UNCHANGED <<secrets, users, videos, seeds, issued, token_blacklist,
                   _url_cache, pc, local, response, calls, watch_history,
                   registered>>

(***************************************************************************)
(* app/routes/auth.py                                                      *)
(***************************************************************************)
relay == <<_url_cache, pc, local, calls, watch_history, registered>>

\* POST /auth/login
login(email, password_ok, r) ==
    /\ IF email \notin users \/ ~password_ok
       THEN /\ response' = Json("login", 401, "Invalid email or password")
            /\ UNCHANGED <<now, ticks, issued>>
       ELSE LET access_token == generate_access_token(email, r[1], r[2])
                refresh_token == generate_refresh_token(email, r[3], r[4])
            IN  /\ issued' \in Followed({access_token, refresh_token})
                /\ response' =
                      [Json("login", 200, None) EXCEPT
                          !.access_token = access_token,
                          !.refresh_token = refresh_token]
                /\ Advance(r[4])
    /\ UNCHANGED <<secrets, users, videos, seeds, token_blacklist>>
    /\ UNCHANGED relay

\* refresh_tokens without the lookup of the user
refresh_tokens_without_lookup(refresh_token, r) ==
    /\ IF refresh_token = NoToken
       THEN /\ response' = Json("refresh", 400, "Refresh token is required")
            /\ UNCHANGED <<now, ticks, issued>>
       ELSE IF decode_refresh_token(refresh_token, now) = NonePayload
       THEN /\ response' =
                   Json("refresh", 401, "Invalid or expired refresh token")
            /\ UNCHANGED <<now, ticks, issued>>
       ELSE LET user == decode_refresh_token(refresh_token, now).user_id
                new_access_token == generate_access_token(user, r[1], r[2])
                new_refresh_token == generate_refresh_token(user, r[3], r[4])
            IN  /\ issued' \in
                      Followed({new_access_token, new_refresh_token})
                /\ response' =
                      [Json("refresh", 200, None) EXCEPT
                          !.access_token = new_access_token,
                          !.refresh_token = new_refresh_token]
                /\ Advance(r[4])
    /\ UNCHANGED <<secrets, users, videos, seeds, token_blacklist>>
    /\ UNCHANGED relay

\* refresh_tokens that lets a refresh token be used once
refresh_tokens_single_use(refresh_token, r) ==
    /\ IF refresh_token = NoToken
       THEN /\ response' = Json("refresh", 400, "Refresh token is required")
            /\ UNCHANGED <<now, ticks, issued, token_blacklist>>
       ELSE IF \/ decode_refresh_token(refresh_token, now) = NonePayload
               \/ refresh_token \in token_blacklist
       THEN /\ response' =
                   Json("refresh", 401, "Invalid or expired refresh token")
            /\ UNCHANGED <<now, ticks, issued, token_blacklist>>
       ELSE LET user_id == decode_refresh_token(refresh_token, now).user_id
                user == User_find_by_id(users, user_id)
                new_access_token == generate_access_token(user, r[1], r[2])
                new_refresh_token == generate_refresh_token(user, r[3], r[4])
            IN  IF user = None
                THEN /\ response' = Json("refresh", 401, "User not found")
                     /\ UNCHANGED <<now, ticks, issued, token_blacklist>>
                ELSE /\ issued' \in
                           Followed({new_access_token, new_refresh_token})
                     /\ token_blacklist' =
                           token_blacklist \cup {refresh_token}
                     /\ response' =
                           [Json("refresh", 200, None) EXCEPT
                               !.access_token = new_access_token,
                               !.refresh_token = new_refresh_token]
                     /\ Advance(r[4])
    /\ UNCHANGED <<secrets, users, videos, seeds>>
    /\ UNCHANGED relay

\* POST /auth/refresh
refresh_tokens(refresh_token, r) ==
    /\ IF refresh_token = NoToken
       THEN /\ response' = Json("refresh", 400, "Refresh token is required")
            /\ UNCHANGED <<now, ticks, issued>>
       ELSE IF decode_refresh_token(refresh_token, now) = NonePayload
       THEN /\ response' =
                   Json("refresh", 401, "Invalid or expired refresh token")
            /\ UNCHANGED <<now, ticks, issued>>
       ELSE LET user_id == decode_refresh_token(refresh_token, now).user_id
                user == User_find_by_id(users, user_id)
                new_access_token == generate_access_token(user, r[1], r[2])
                new_refresh_token == generate_refresh_token(user, r[3], r[4])
            IN  IF user = None
                THEN /\ response' = Json("refresh", 401, "User not found")
                     /\ UNCHANGED <<now, ticks, issued>>
                ELSE /\ issued' \in
                           Followed({new_access_token, new_refresh_token})
                     /\ response' =
                           [Json("refresh", 200, None) EXCEPT
                               !.access_token = new_access_token,
                               !.refresh_token = new_refresh_token]
                     /\ Advance(r[4])
    /\ UNCHANGED <<secrets, users, videos, seeds, token_blacklist>>
    /\ UNCHANGED relay

\* GET /auth/me
get_profile(token) ==
    /\ IF jwt_required("me", token, now) # NoResponse
       THEN response' = jwt_required("me", token, now)
       ELSE IF User_find_by_id(users,
                               decode_access_token(token, now).user_id) = None
       THEN response' = Json("me", 404, "User not found")
       ELSE response' = Json("me", 200, None)
    /\ UNCHANGED <<now, ticks, secrets, users, videos, seeds, issued,
                   token_blacklist>>
    /\ UNCHANGED relay

\* the users collection loses a document (nothing in the application
\* deletes users; the database is shared with its administrators)
user_removed(user_id) ==
    /\ user_id \in users
    /\ users' = users \ {user_id}
    /\ UNCHANGED <<now, ticks, secrets, videos, seeds, issued,
                   token_blacklist, response>>
    /\ UNCHANGED relay

\* a videos document gets is_active false (nothing in the application
\* writes the flag; the database is shared with its administrators)
video_deactivated(video_id) ==
    /\ video_id \in DOMAIN videos
    /\ videos[video_id].is_active
    /\ videos' = [videos EXCEPT ![video_id].is_active = FALSE]
    /\ UNCHANGED <<now, ticks, secrets, users, seeds, issued,
                   token_blacklist, response>>
    /\ UNCHANGED relay

\* POST /auth/logout
logout(token) ==
    /\ IF jwt_required("logout", token, now) # NoResponse
       THEN /\ response' = jwt_required("logout", token, now)
            /\ UNCHANGED token_blacklist
       ELSE /\ token_blacklist' = token_blacklist \cup {token}
            /\ response' = Json("logout", 200, None)
    /\ UNCHANGED <<now, ticks, secrets, users, videos, seeds, issued>>
    /\ UNCHANGED relay

\* a generate function called directly: the token goes to a client
issue(token, r) ==
    /\ Fits({token})
    /\ issued' = issued \cup {token}
    /\ Advance(r[2])
    /\ UNCHANGED <<secrets, users, videos, seeds, token_blacklist,
                   response>>
    /\ UNCHANGED relay

(***************************************************************************)
(* app/routes/video.py: the routes behind jwt_required                     *)
(***************************************************************************)
\* get_video_info without the jwt_required decorator: the user is taken
\* from the claims of whatever token is presented
get_video_info_undecorated(token, video_id, r) ==
    /\ LET user_id == token.user_id
           video == Video_find_by_id(videos, video_id)
           playback_token ==
               generate_playback_token(video, user_id, r[1], r[2])
       IN  IF video = None
           THEN /\ response' = Json("info", 404, "Video not found")
                /\ UNCHANGED <<now, ticks, issued>>
           ELSE /\ issued' \in Followed({playback_token})
                /\ response' =
                      [Json("info", 200, None) EXCEPT
                          !.videos =
                              <<to_public_dict(videos, video,
                                               playback_token)>>]
                /\ Advance(r[2])
    /\ UNCHANGED <<secrets, users, videos, seeds, token_blacklist>>
    /\ UNCHANGED relay

\* GET /video/<video_id>/info
get_video_info(token, video_id, r) ==
    /\ IF jwt_required("info", token, now) # NoResponse
       THEN /\ response' = jwt_required("info", token, now)
            /\ UNCHANGED <<now, ticks, issued>>
       ELSE LET user_id == decode_access_token(token, now).user_id
                video == Video_find_by_id(videos, video_id)
                playback_token ==
                    generate_playback_token(video, user_id, r[1], r[2])
            IN  IF video = None
                THEN /\ response' = Json("info", 404, "Video not found")
                     /\ UNCHANGED <<now, ticks, issued>>
                ELSE /\ issued' \in Followed({playback_token})
                     /\ response' =
                           [Json("info", 200, None) EXCEPT
                               !.videos =
                                   <<to_public_dict(videos, video,
                                                    playback_token)>>]
                     /\ Advance(r[2])
    /\ UNCHANGED <<secrets, users, videos, seeds, token_blacklist>>
    /\ UNCHANGED relay

\* GET /dashboard?page=&limit=
get_dashboard(token, page, limit, r) ==
    /\ IF jwt_required("dashboard", token, now) # NoResponse
       THEN /\ response' = jwt_required("dashboard", token, now)
            /\ UNCHANGED <<now, ticks, issued, videos, seeds>>
       ELSE LET user_id == decode_access_token(token, now).user_id
                seeded == seed_data(videos, seeds)
                page_ids == find_active_paginated(seeded, page, limit)
                video_list ==
                    [i \in 1..Len(page_ids) |->
                        to_public_dict(seeded, page_ids[i],
                            generate_playback_token(page_ids[i], user_id,
                                                    r[2 * i - 1], r[2 * i]))]
                tokens ==
                    {video_list[i].playback_token : i \in 1..Len(page_ids)}
            IN  /\ videos' = seeded
                /\ seeds' = IF seeded = videos THEN seeds ELSE seeds + 1
                /\ issued' \in Followed(tokens)
                /\ response' =
                      [Json("dashboard", 200, None) EXCEPT
                          !.videos = video_list]
                /\ Advance(IF Len(page_ids) = 0 THEN now
                           ELSE r[2 * Len(page_ids)])
    /\ UNCHANGED <<secrets, users, token_blacklist>>
    /\ UNCHANGED relay

\* POST /admin/reseed: delete_many({}) and seed_data()
reseed_videos ==
    /\ seeds <= MaxReseeds
    /\ videos' = Seeded(seeds + 1)
    /\ seeds' = seeds + 1
    /\ response' = Json("reseed", 200, None)
    /\ UNCHANGED <<now, ticks, secrets, users, issued, token_blacklist>>
    /\ UNCHANGED relay

(***************************************************************************)
(* The external collaborators of the relay.                                *)
(***************************************************************************)
\* direct URLs the extractor may hand out for a youtube id; they change
\* from call to call (they are signed and expire)
UrlsOf(youtube_id) ==
    IF youtube_id = "y1"
    THEN {"https://cdn/y1/a.mp4", "https://cdn/y1/b.mp4"}
    ELSE {"https://cdn/y2/a.mp4"}

ManifestOf(youtube_id) ==
    IF youtube_id = "y1" THEN "https://cdn/y1/manifest.m3u8"
    ELSE "https://cdn/y2/manifest.m3u8"

\* 'manifest' in url.lower()
HasManifest(url) == url \in {ManifestOf(y) : y \in YoutubeIds}

\* vcodec.startswith('avc'); calling it on None raises AttributeError
StartsWithAvc(vcodec) == vcodec \in {"avc1.64001F", "avc1.4d401e"}

Format(ext, url, vcodec) == [ext |-> ext, url |-> url, vcodec |-> vcodec]

\* info['formats'] of one extraction: lists over a few formats, among them
\* entries that fail each test of the fallback scan
FormatsOf(youtube_id) ==
    LET good == {Format("mp4", u, "avc1.64001F") : u \in UrlsOf(youtube_id)}
        bad == {Format("webm", CHOOSE u \in UrlsOf(youtube_id) : TRUE, "vp9"),
                Format("mp4", "", "avc1.4d401e"),
                Format("mp4", ManifestOf(youtube_id), "avc1.64001F"),
                Format("mp4", CHOOSE u \in UrlsOf(youtube_id) : TRUE, None)}
        fs == good \cup bad
    IN  {<<>>} \cup {<<f>> : f \in fs} \cup {<<f, g>> : f \in fs, g \in bad}

\* what ydl.extract_info returns or raises
Infos(youtube_id) ==
    {[raised |-> TRUE, url |-> "", formats |-> <<>>]}
    \cup {[raised |-> FALSE, url |-> u, formats |-> <<>>] :
             u \in UrlsOf(youtube_id)}
    \cup {[raised |-> FALSE, url |-> "", formats |-> fs] :
             fs \in FormatsOf(youtube_id)}

\* the upstream's answer to requests.get: raised stands for a network
\* error or the 30 s timeout; a header the upstream omits is None
Reply(raised, status_code, content_type, content_length, content_range) ==
    [raised |-> raised, status_code |-> status_code,
     content_type |-> content_type, content_length |-> content_length,
     content_range |-> content_range]

Replies ==
    {Reply(TRUE, 0, None, None, None),
     Reply(FALSE, 200, "video/mp4", "5000", None),
     Reply(FALSE, 206, "video/webm", "1000", "bytes 0-999/5000"),
     Reply(FALSE, 403, None, None, None)}

\* the Range header of a request: absent, empty, or a byte range
RangeHeaders == {None, "", "bytes=0-999"}

\* Python truthiness of an optional string
Truthy(x) == x # None /\ x # ""

(***************************************************************************)
(* app/routes/video.py: the URL cache.  A handler thread may be preempted  *)
(* between any two statements, so get_cached_url is one step per access to *)
(* the shared dictionary.                                                  *)
(***************************************************************************)
Empty == [x \in {} |-> None]

Put(f, k, v) == [x \in DOMAIN f \cup {k} |-> IF x = k THEN v ELSE f[x]]

Del(f, k) == [x \in DOMAIN f \ {k} |-> f[x]]

\* cache_url keeping a single slot, whatever the id resolved
cache_url_one_slot(cache, youtube_id, url, t) == Put(cache, "y1", <<url, t>>)

\* cache_url(youtube_id, url) at clock t
cache_url(cache, youtube_id, url, t) == Put(cache, youtube_id, <<url, t>>)

\* what find_one returns when no document matches (None in the code)
NoDocument == [found |-> FALSE, watch_duration |-> 0, completed |-> "None"]

\* the local variables of a handler thread: of get_stream, and of
\* WatchHistory.update_or_create
IdleLocal ==
    [youtube_id |-> None, url |-> None,
     existing |-> NoDocument, watch_duration |-> 0, completed |-> "False",
     email |-> <<>>]

\* Stream without the Content-Range header of the upstream
Stream_without_content_range(range, reply) ==
    [route |-> "stream",
     status |-> IF Truthy(range) /\ reply.status_code = 206 THEN 206 ELSE 200,
     error |-> None,
     range |-> range,
     upstream |-> reply.status_code,
     body |-> "upstream",
     accept_ranges |-> "bytes",
     content_type |-> IF reply.content_type # None THEN reply.content_type
                      ELSE "video/mp4",
     content_length |-> reply.content_length,
     content_range |-> None,
     access_token |-> NoToken, refresh_token |-> NoToken, videos |-> <<>>,
     received |-> 0, sent |-> 0, ended |-> "open", caught |-> None]

Stream(range, reply) ==
    [route |-> "stream",
     status |-> IF Truthy(range) /\ reply.status_code = 206 THEN 206 ELSE 200,
     error |-> None,
     range |-> range,
     upstream |-> reply.status_code,
     body |-> "upstream",
     accept_ranges |-> "bytes",
     content_type |-> IF reply.content_type # None THEN reply.content_type
                      ELSE "video/mp4",
     content_length |-> reply.content_length,
     content_range |-> reply.content_range,
     access_token |-> NoToken, refresh_token |-> NoToken, videos |-> <<>>,
     received |-> 0, sent |-> 0, ended |-> "open", caught |-> None]

\* an exception no handler catches: Flask answers 500 with its own page
Unhandled(route, exception) ==
    [Json(route, 500, exception) EXCEPT !.body = "flask"]

\* a handler thread ends its request with response resp
Return(h, resp) ==
    /\ pc' = [pc EXCEPT ![h] = "idle"]
    /\ local' = [local EXCEPT ![h] = IdleLocal]
    /\ response' = resp

stores ==
    <<now, ticks, secrets, users, videos, seeds, issued, token_blacklist>>

shared == <<stores, watch_history, registered>>

\* stream_auth without the comparison of the token's video_id
stream_auth_unbound(video_id, playback_token, t) ==
    IF playback_token = NoToken
    THEN Json("stream", 400, "Playback token is required")
    ELSE IF decode_playback_token(playback_token, t) = NonePayload
    THEN Json("stream", 401, "Invalid or expired playback token")
    ELSE NoResponse

\* get_stream, lines 190-204: the response that turns the request away,
\* NoResponse when the token authorizes video_id
stream_auth(video_id, playback_token, t) ==
    IF playback_token = NoToken
    THEN Json("stream", 400, "Playback token is required")
    ELSE IF decode_playback_token(playback_token, t) = NonePayload
    THEN Json("stream", 401, "Invalid or expired playback token")
    ELSE IF decode_playback_token(playback_token, t).video_id # video_id
    THEN Json("stream", 403, "Token does not match video")
    ELSE NoResponse

\* get_stream asking the users collection for the token's subject and the
\* denylist for the subject's sessions
get_stream_checking_user(h, video_id, playback_token) ==
    /\ pc[h] = "idle"
    /\ LET video == Video_find_by_id(videos, video_id)
       IN  IF stream_auth(video_id, playback_token, now) # NoResponse
           THEN Return(h, stream_auth(video_id, playback_token, now))
           ELSE IF \/ playback_token.user_id \notin users
                   \/ \E t \in token_blacklist :
                         t.user_id = playback_token.user_id
           THEN Return(h, Json("stream", 401,
                               "Invalid or expired playback token"))
           ELSE IF video = None
           THEN Return(h, Json("stream", 404, "Video not found"))
           ELSE /\ pc' = [pc EXCEPT ![h] = "L35"]
                /\ local' = [local EXCEPT ![h] =
                      [IdleLocal EXCEPT
                          !.youtube_id = videos[video].youtube_id]]
                /\ UNCHANGED response
    /\ UNCHANGED _url_cache
    /\ UNCHANGED shared

\* get_stream looking the video up before it checks the token
get_stream_lookup_first(h, video_id, playback_token) ==
    /\ pc[h] = "idle"
    /\ LET video == Video_find_by_id(videos, video_id)
       IN  IF video = None
           THEN Return(h, Json("stream", 404, "Video not found"))
           ELSE IF stream_auth(video_id, playback_token, now) # NoResponse
           THEN Return(h, stream_auth(video_id, playback_token, now))
           ELSE /\ pc' = [pc EXCEPT ![h] = "L35"]
                /\ local' = [local EXCEPT ![h] =
                      [IdleLocal EXCEPT
                          !.youtube_id = videos[video].youtube_id]]
                /\ UNCHANGED response
    /\ UNCHANGED _url_cache
    /\ UNCHANGED shared

\* GET /video/<video_id>/stream?token=: lines 190-212, up to the call of
\* extract_video_url
get_stream(h, video_id, playback_token) ==
    /\ pc[h] = "idle"
    /\ LET video == Video_find_by_id(videos, video_id)
       IN  IF stream_auth(video_id, playback_token, now) # NoResponse
           THEN Return(h, stream_auth(video_id, playback_token, now))
           ELSE IF video = None
           THEN Return(h, Json("stream", 404, "Video not found"))
           ELSE /\ pc' = [pc EXCEPT ![h] = "L35"]
                /\ local' = [local EXCEPT ![h] =
                      [IdleLocal EXCEPT
                          !.youtube_id = videos[video].youtube_id]]
                /\ UNCHANGED response
    /\ UNCHANGED _url_cache
    /\ UNCHANGED shared

\* get_cached_url, line 35: if youtube_id in _url_cache; on a miss
\* extract_video_url goes on to call the extractor (line 78)
L35(h) ==
    /\ pc[h] = "L35"
    /\ pc' = [pc EXCEPT ![h] =
          IF local[h].youtube_id \in DOMAIN _url_cache THEN "L36" ELSE "L78"]
    /\ UNCHANGED <<_url_cache, local, response>>
    /\ UNCHANGED shared

\* lines 36-38: url, timestamp = _url_cache[youtube_id], then
\* if time.time() - timestamp < CACHE_DURATION: return url.  The test reads
\* only the thread's own variables and the clock, so it is one step with
\* the read.  The cached URL is truthy, so extract_video_url returns it
\* (line 61) and get_stream goes on to fetch it.
L36(h) ==
    /\ pc[h] = "L36"
    /\ IF local[h].youtube_id \in DOMAIN _url_cache
       THEN LET url == _url_cache[local[h].youtube_id][1]
                timestamp == _url_cache[local[h].youtube_id][2]
            IN  /\ IF now - timestamp < CACHE_DURATION
                   THEN /\ pc' = [pc EXCEPT ![h] = "L230"]
                        /\ local' = [local EXCEPT ![h].url = url]
                   ELSE /\ pc' = [pc EXCEPT ![h] = "L39"]
                        /\ UNCHANGED local
                /\ UNCHANGED response
       ELSE Return(h, Unhandled("stream", "KeyError"))
    /\ UNCHANGED _url_cache
    /\ UNCHANGED shared

\* line 39: del _url_cache[youtube_id], then return None; on the miss
\* extract_video_url goes on to call the extractor
L39(h) ==
    /\ pc[h] = "L39"
    /\ IF local[h].youtube_id \in DOMAIN _url_cache
       THEN /\ _url_cache' = Del(_url_cache, local[h].youtube_id)
            /\ pc' = [pc EXCEPT ![h] = "L78"]
            /\ UNCHANGED <<local, response>>
       ELSE /\ Return(h, Unhandled("stream", "KeyError"))
            /\ UNCHANGED _url_cache
    /\ UNCHANGED shared

(***************************************************************************)
(* extract_video_url after a miss                                          *)
(***************************************************************************)
\* the test of lines 85-88 on one format: "yes", "no" or "raise"
Compatible(f) ==
    IF f.ext # "mp4" \/ ~Truthy(f.url) THEN "no"
    ELSE IF f.vcodec = None THEN "raise"
    ELSE IF StartsWithAvc(f.vcodec) /\ ~HasManifest(f.url) THEN "yes"
    ELSE "no"

\* lines 84-91: for f in reversed(formats), from index i down; the URL
\* found, "" when none is, "raise" when the test raises
RECURSIVE ScanFormats(_, _)
ScanFormats(formats, i) ==
    IF i = 0 THEN ""
    ELSE IF Compatible(formats[i]) = "yes" THEN formats[i].url
    ELSE IF Compatible(formats[i]) = "raise" THEN "raise"
    ELSE ScanFormats(formats, i - 1)

\* lines 78-102: video_url of one extraction, "" when extract_video_url
\* returns None
SelectUrl(info) ==
    IF info.raised THEN ""
    ELSE IF Truthy(info.url) THEN info.url
    ELSE IF ScanFormats(info.formats, Len(info.formats)) = "raise" THEN ""
    ELSE ScanFormats(info.formats, Len(info.formats))

\* line 78: ydl.extract_info is called; the call is in flight until L78r
L78(h) ==
    /\ pc[h] = "L78"
    /\ pc' = [pc EXCEPT ![h] = "extracting"]
    /\ UNCHANGED <<_url_cache, local, response>>
    /\ UNCHANGED shared

\* L78r calling the extractor again whenever it yields no URL
L78r_retrying(h, info) ==
    /\ pc[h] = "extracting"
    /\ LET video_url == SelectUrl(info)
       IN  IF Truthy(video_url)
           THEN /\ _url_cache' = cache_url(_url_cache, local[h].youtube_id,
                                           video_url, now)
                /\ pc' = [pc EXCEPT ![h] = "L230"]
                /\ local' = [local EXCEPT ![h].url = video_url]
                /\ UNCHANGED response
           ELSE /\ pc' = [pc EXCEPT ![h] = "L78"]
                /\ UNCHANGED <<_url_cache, local, response>>
    /\ UNCHANGED shared

\* lines 78-102 and 214-216: extract_info returns info (or raises)
L78r(h, info) ==
    /\ pc[h] = "extracting"
    /\ LET video_url == SelectUrl(info)
       IN  IF Truthy(video_url)
           THEN /\ _url_cache' = cache_url(_url_cache, local[h].youtube_id,
                                           video_url, now)
                /\ pc' = [pc EXCEPT ![h] = "L230"]
                /\ local' = [local EXCEPT ![h].url = video_url]
                /\ UNCHANGED response
           ELSE /\ Return(h, Json("stream", 500,
                                  "Failed to extract video stream"))
                /\ UNCHANGED _url_cache
    /\ UNCHANGED shared

\* lines 218-259: the request's Range header is read and requests.get
\* answers with reply
L230(h, range_header, reply) ==
    /\ pc[h] = "L230"
    /\ IF reply.raised
       THEN Return(h, Json("stream", 500, "Streaming failed"))
       ELSE Return(h, Stream(range_header, reply))
    /\ UNCHANGED _url_cache
    /\ UNCHANGED shared

(***************************************************************************)
(* The body of a streamed response, lines 246-255.  Flask returns from     *)
(* get_stream with the Response object; the WSGI server then iterates      *)
(* generate(), which pulls the chunks from the upstream one by one.        *)
(***************************************************************************)
\* what catches an exception raised at a place of get_stream: the except
\* clause of lines 257-259 encloses lines 229-255, which have been left
\* when the generator body of lines 247-249 runs
CaughtBy(place) ==
    IF place = "requests.get" THEN "except line 257" ELSE "WSGI server"

\* the body of the last response is being streamed
Streaming == response.body = "upstream" /\ response.ended = "open"

\* lines 247-249: iter_content hands over a chunk, sent on unless empty
generate_chunk(chunk) ==
    /\ Streaming
    /\ response.received < MaxChunks
    /\ response' =
          [response EXCEPT
              !.received = @ + 1,
              !.sent = IF Truthy(chunk) THEN @ + 1 ELSE @]
    /\ UNCHANGED <<_url_cache, pc, local>>
    /\ UNCHANGED shared

\* line 247: iter_content is exhausted, the body is complete
generate_end ==
    /\ Streaming
    /\ response' = [response EXCEPT !.ended = "complete"]
    /\ UNCHANGED <<_url_cache, pc, local>>
    /\ UNCHANGED shared

\* line 247: iter_content raises (the upstream connection fails); the
\* exception leaves generate() and the response ends where it is
generate_raises ==
    /\ Streaming
    /\ response' = [response EXCEPT !.ended = "truncated",
                                    !.caught = CaughtBy("iter_content")]
    /\ UNCHANGED <<_url_cache, pc, local>>
    /\ UNCHANGED shared

(***************************************************************************)
(* History, recorded by the specification SpecLog only: what the current   *)
(* resolution of each handler evicted, and the last MaxLog resolutions     *)
(* that called the extractor, with the URL each returned ("" for None).    *)
(***************************************************************************)
NoCalls == [evicted |-> [h \in HandlerIds |-> "nothing"], done |-> <<>>]

LogBegin(h) == [calls EXCEPT !.evicted[h] = "nothing"]

\* at line 39: was the entry that del removes stale at that moment?
LogEvict(h) ==
    LET y == local[h].youtube_id
    IN  IF y \notin DOMAIN _url_cache THEN calls
        ELSE [calls EXCEPT !.evicted[h] =
                 IF now - _url_cache[y][2] < CACHE_DURATION THEN "fresh"
                 ELSE "stale"]

LogDone(h, info) ==
    LET entry == [src |-> local[h].youtube_id, url |-> SelectUrl(info),
                  evicted |-> calls.evicted[h]]
    IN  [calls EXCEPT !.done =
            IF Len(calls.done) < MaxLog THEN Append(calls.done, entry)
            ELSE Append(Tail(calls.done), entry)]

(***************************************************************************)
(* POST /video/<video_id>/watch and WatchHistory.update_or_create, for the *)
(* documents of one user and one video.  Each call of the database is one  *)
(* step; requested adds up the watch_duration arguments of the calls that  *)
(* have completed, begun counts the calls.                                 *)
(***************************************************************************)
\* docs are the stored documents (watch_duration, completed); reported
\* lists the completed arguments of the calls that have completed
NoHistory == [docs |-> <<>>, requested |-> 0, begun |-> 0, reported |-> <<>>]

\* what data.get('completed', False) yields for a JSON true, false or
\* null, as Python writes it
Completions == {"True", "False", "None"}

\* Python's a or b, and a and b, on these values
py_or(a, b) == IF a = "True" THEN a ELSE b

py_and(a, b) == IF a = "True" THEN b ELSE a

\* the watch_duration values a client reports
Durations == {10, 20}

\* track_watch, lines 300-312, and update_or_create up to the find_one of
\* line 71: existing is the document found, None when there is none
track_watch(h, token, video_id, duration, completed) ==
    /\ pc[h] = "idle"
    /\ IF jwt_required("watch", token, now) # NoResponse
       THEN /\ Return(h, jwt_required("watch", token, now))
            /\ UNCHANGED watch_history
       ELSE IF Video_find_by_id(videos, video_id) = None
       THEN /\ Return(h, Json("watch", 404, "Video not found"))
            /\ UNCHANGED watch_history
       ELSE /\ watch_history.begun < MaxWatches
            /\ pc' = [pc EXCEPT ![h] = "L95"]
            /\ local' = [local EXCEPT ![h] =
                  [IdleLocal EXCEPT
                      !.existing =
                          IF watch_history.docs = <<>> THEN NoDocument
                          ELSE [found |-> TRUE,
                                watch_duration |->
                                    watch_history.docs[1].watch_duration,
                                completed |->
                                    watch_history.docs[1].completed],
                      !.watch_duration = duration,
                      !.completed = completed]]
            /\ watch_history' = [watch_history EXCEPT !.begun = @ + 1]
            /\ UNCHANGED response
    /\ UNCHANGED <<_url_cache, calls, registered>>
    /\ UNCHANGED stores

\* lines 76-78: total_duration from the document read at line 71
total_duration(h) ==
    IF ~local[h].existing.found THEN local[h].watch_duration
    ELSE local[h].existing.watch_duration + local[h].watch_duration

\* line 85: completed or (existing and existing.get('completed', False));
\* existing is None or a document, which is truthy
stored_completed(h) ==
    py_or(local[h].completed,
          IF ~local[h].existing.found THEN "None"
          ELSE py_and("True", local[h].existing.completed))

\* $set of lines 80-88
update_data(h) ==
    [watch_duration |-> total_duration(h), completed |-> stored_completed(h)]

\* L95 storing the completed argument as it was reported
L95_overwriting(h) ==
    /\ pc[h] = "L95"
    /\ watch_history' =
          [watch_history EXCEPT
              !.docs = LET doc == [update_data(h) EXCEPT
                                      !.completed = local[h].completed]
                       IN  IF @ = <<>> THEN <<doc>>
                           ELSE [@ EXCEPT ![1] = doc],
              !.requested = @ + local[h].watch_duration,
              !.reported = Append(@, local[h].completed)]
    /\ Return(h, Json("watch", 200, None))
    /\ UNCHANGED <<_url_cache, calls, registered>>
    /\ UNCHANGED stores

\* lines 95-105 and track_watch lines 319-327: update_one with upsert=True
\* sets the fields of the matching document, or inserts one
L95(h) ==
    /\ pc[h] = "L95"
    /\ watch_history' =
          [watch_history EXCEPT
              !.docs = IF @ = <<>> THEN <<update_data(h)>>
                       ELSE [@ EXCEPT ![1] = update_data(h)],
              !.requested = @ + local[h].watch_duration,
              !.reported = Append(@, local[h].completed)]
    /\ Return(h, Json("watch", 200, None))
    /\ UNCHANGED <<_url_cache, calls, registered>>
    /\ UNCHANGED stores

(***************************************************************************)
(* POST /auth/signup and the users collection.  Text is a sequence of      *)
(* characters, so that strip() and lower() are computed; find_one and      *)
(* insert_one are one step each.                                           *)
(***************************************************************************)
\* str.strip(): the text without its leading and trailing blanks
RECURSIVE strip(_)
strip(text) ==
    IF text = <<>> THEN <<>>
    ELSE IF Head(text) = " " THEN strip(Tail(text))
    ELSE IF text[Len(text)] = " " THEN strip(SubSeq(text, 1, Len(text) - 1))
    ELSE text

\* str.lower()
lower(text) ==
    [i \in 1..Len(text) |->
        CASE text[i] = "N" -> "n"
          [] text[i] = "U" -> "u"
          [] OTHER -> text[i]]

\* the email of a user document that was not inserted by signup
EmailOf(user_id) == IF user_id = "u1" THEN <<"u", "1">> ELSE <<>>

\* the _id the User constructor draws for the n-th inserted document
NewIds == <<"n1", "n2", "n3", "n4">>

\* User.find_by_email: is there a document with this email
User_find_by_email(email) ==
    \/ \E u \in users : EmailOf(u) = email
    \/ \E i \in 1..Len(registered) : registered[i].email = email

\* the JSON body of a signup request; request.get_json() is falsy when
\* the body is missing or empty
SignupBody(name, email, password) ==
    [falsy |-> FALSE, name |-> name, email |-> email, password |-> password]

NoBody == [falsy |-> TRUE, name |-> <<>>, email |-> <<>>, password |-> <<>>]

SignupBodies ==
    {NoBody}
    \cup {SignupBody(name, email, password) :
             name \in {<<>>, <<"A">>},
             email \in {<<" ">>, <<"u", "1">>, <<"n", "e", "w">>,
                        <<" ", "N", "e", "w", " ">>},
             password \in {<<"1", "2", "3", "4", "5">>,
                           <<"1", "2", "3", "4", "5", "6">>}}

\* signup, lines 42-62: the validation and User.find_by_email
signup(h, data) ==
    /\ pc[h] = "idle"
    /\ IF data.falsy
       THEN Return(h, Json("signup", 400, "Request body is required"))
       ELSE IF strip(data.name) = <<>>
       THEN Return(h, Json("signup", 400, "Name is required"))
       ELSE IF lower(strip(data.email)) = <<>>
       THEN Return(h, Json("signup", 400, "Email is required"))
       ELSE IF Len(data.password) < 6
       THEN Return(h, Json("signup", 400,
                           "Password must be at least 6 characters"))
       ELSE IF User_find_by_email(lower(strip(data.email)))
       THEN Return(h, Json("signup", 409, "Email already registered"))
       ELSE /\ pc' = [pc EXCEPT ![h] = "L69"]
            /\ local' = [local EXCEPT ![h] =
                  [IdleLocal EXCEPT !.email = lower(strip(data.email))]]
            /\ UNCHANGED response
    /\ UNCHANGED <<_url_cache, calls, watch_history, registered>>
    /\ UNCHANGED stores

\* signup, lines 64-81: user.save() inserts the document, the tokens are
\* generated for its _id
L69(h, r) ==
    /\ pc[h] = "L69"
    /\ Len(registered) < Len(NewIds)
    /\ LET _id == NewIds[Len(registered) + 1]
           access_token == generate_access_token(_id, r[1], r[2])
           refresh_token == generate_refresh_token(_id, r[3], r[4])
       IN  /\ registered' =
                 Append(registered, [_id |-> _id, email |-> local[h].email])
           /\ issued' \in Followed({access_token, refresh_token})
           /\ Return(h, [Json("signup", 201, None) EXCEPT
                             !.access_token = access_token,
                             !.refresh_token = refresh_token])
           /\ Advance(r[4])
    /\ UNCHANGED <<secrets, users, videos, seeds, token_blacklist>>
    /\ UNCHANGED <<_url_cache, calls, watch_history>>

(***************************************************************************)
(* What clients send.                                                      *)
(***************************************************************************)
\* Tokens a client of the relay may hold at clock now: a playback token
\* issued just now, one in its last second, one that has just expired,
\* and tokens of the other tiers
IssueTimes ==
    {t \in {now, now - (PLAYBACK_TOKEN_EXPIRES - 1),
            now - PLAYBACK_TOKEN_EXPIRES} : t >= 0}

StreamTokens ==
    {NoToken, Garbage}
    \cup {generate_playback_token(id, u, t, t) :
             id \in SeedIds(1), u \in UserIds, t \in IssueTimes}
    \cup {generate_access_token(u, now, now) : u \in UserIds}
    \cup {generate_refresh_token(u, now, now) : u \in UserIds}
    \cup {generate_internal_token(HexIds[1], u, now, now) : u \in UserIds}

(***************************************************************************)
(* The specifications.                                                     *)
(***************************************************************************)
Init ==
    /\ now = 0
    /\ ticks = 0
    /\ secrets \in Configs
    /\ users = UserIds
    /\ videos = Empty
    /\ seeds = 0
    /\ issued = {}
    /\ token_blacklist = {}
    /\ _url_cache = Empty
    /\ pc = [h \in HandlerIds |-> "idle"]
    /\ local = [h \in HandlerIds |-> IdleLocal]
    /\ response = NoResponse
    /\ calls = NoCalls
    /\ watch_history = NoHistory
    /\ registered = <<>>

\* the routes of auth.py and the token-issuing routes of video.py
Routes ==
    \/ \E email \in UserIds \cup {"nobody"}, ok \in BOOLEAN,
          r \in ClockReads(4) : login(email, ok, r)
    \/ \E token \in Presentable, r \in ClockReads(4) :
          refresh_tokens(token, r)
    \/ \E token \in Presentable : logout(token)
    \/ \E token \in Presentable : get_profile(token)
    \/ \E user_id \in UserIds : user_removed(user_id)
    \/ \E token \in Presentable, video_id \in RequestIds,
          r \in ClockReads(2) : get_video_info(token, video_id, r)
    \/ \E token \in Presentable, page \in 1..2, limit \in 1..2,
          r \in ClockReads(4) : get_dashboard(token, page, limit, r)

\* a request arrives at the relay
Arrive(h) ==
    \E video_id \in RequestIds, token \in StreamTokens \cup issued :
        get_stream(h, video_id, token)

\* the extractor answers
Extracted(h) == \E info \in Infos(local[h].youtube_id) : L78r(h, info)

\* the upstream answers
Fetched(h) ==
    \E range_header \in RangeHeaders, reply \in Replies :
        L230(h, range_header, reply)

\* the relay: concurrent get_stream handlers over the shared cache
Relay ==
    \E h \in HandlerIds :
        \/ Arrive(h) /\ UNCHANGED calls
        \/ L35(h) /\ UNCHANGED calls
        \/ L36(h) /\ UNCHANGED calls
        \/ L39(h) /\ UNCHANGED calls
        \/ L78(h) /\ UNCHANGED calls
        \/ Extracted(h) /\ UNCHANGED calls
        \/ Fetched(h) /\ UNCHANGED calls

\* the four generate functions called directly, with any arguments
Issue ==
    \E id \in {HexIds[1]}, u \in UserIds, r \in ClockReads(2) :
        \/ issue(generate_access_token(u, r[1], r[2]), r)
        \/ issue(generate_refresh_token(u, r[1], r[2]), r)
        \/ issue(generate_playback_token(id, u, r[1], r[2]), r)
        \/ issue(generate_internal_token(id, u, r[1], r[2]), r)

Next == Tick \/ Routes \/ Issue \/ reseed_videos \/ Relay

Spec == Init /\ [][Next]_vars

\* the token functions alone
NextTokens == Tick \/ Issue

SpecTokens == Init /\ [][NextTokens]_vars

\* The state in which the videos collection has been seeded.
InitRelay ==
    /\ now = 0
    /\ ticks = 0
    /\ secrets \in Configs
    /\ users = UserIds
    /\ videos = Seeded(1)
    /\ seeds = 1
    /\ issued = {}
    /\ token_blacklist = {}
    /\ _url_cache = Empty
    /\ pc = [h \in HandlerIds |-> "idle"]
    /\ local = [h \in HandlerIds |-> IdleLocal]
    /\ response = NoResponse
    /\ calls = NoCalls
    /\ watch_history = NoHistory
    /\ registered = <<>>

\* a request for a stored video with a playback token issued for it
ArriveValid(h) ==
    \E id \in DOMAIN videos, u \in UserIds :
        get_stream(h, id, generate_playback_token(id, u, now, now))

\* the upstream answers 200 to a request without Range header
FetchedPlain(h) ==
    L230(h, None, Reply(FALSE, 200, "video/mp4", "5000", None))

\* the extractor answers with a direct URL
ExtractedDirect(h) ==
    \E u \in UrlsOf(local[h].youtube_id) :
        L78r(h, [raised |-> FALSE, url |-> u, formats |-> <<>>])

\* One handler thread of the relay, its clients holding any token of
\* StreamTokens and asking for any video; every resolution succeeding and
\* every fetch answered.
NextAuth ==
    \/ Tick
    \/ Arrive("h1") /\ UNCHANGED calls
    \/ L35("h1") /\ UNCHANGED calls
    \/ L36("h1") /\ UNCHANGED calls
    \/ L39("h1") /\ UNCHANGED calls
    \/ L78("h1") /\ UNCHANGED calls
    \/ ExtractedDirect("h1") /\ UNCHANGED calls
    \/ FetchedPlain("h1") /\ UNCHANGED calls

SpecAuth == InitRelay /\ [][NextAuth]_vars

InitCache == InitRelay /\ secrets = DefaultSecrets

\* One handler thread of the relay, every request authorized, the client
\* sending any Range header and the upstream answering anything.
NextStream ==
    \/ Tick
    \/ ArriveValid("h1") /\ UNCHANGED calls
    \/ L35("h1") /\ UNCHANGED calls
    \/ L36("h1") /\ UNCHANGED calls
    \/ L39("h1") /\ UNCHANGED calls
    \/ L78("h1") /\ UNCHANGED calls
    \/ Extracted("h1") /\ UNCHANGED calls
    \/ Fetched("h1") /\ UNCHANGED calls

SpecStream == InitCache /\ [][NextStream]_vars

\* One handler thread of the relay, every request authorized and resolved,
\* the upstream answering anything, and the body of each streamed
\* response delivered chunk by chunk until it ends or the upstream fails.
NextBody ==
    \/ ArriveValid("h1") /\ UNCHANGED calls
    \/ L35("h1") /\ UNCHANGED calls
    \/ L36("h1") /\ UNCHANGED calls
    \/ L78("h1") /\ UNCHANGED calls
    \/ ExtractedDirect("h1") /\ UNCHANGED calls
    \/ Fetched("h1") /\ UNCHANGED calls
    \/ \E chunk \in {"", "8 KiB"} : generate_chunk(chunk) /\ UNCHANGED calls
    \/ generate_end /\ UNCHANGED calls
    \/ generate_raises /\ UNCHANGED calls

SpecBody == InitCache /\ [][NextBody]_vars

\* a handler thread in the middle of get_stream takes its next step: the
\* thread is scheduled, and the two calls it waits in return, with an
\* answer or by raising, because both carry a timeout (socket_timeout 30
\* at line 72, timeout=30 at line 230)
HandlerStep(h) ==
    /\ \/ L35(h) \/ L36(h) \/ L39(h) \/ L78(h) \/ Extracted(h) \/ Fetched(h)
    /\ UNCHANGED calls

\* SpecStream with a handler thread that is never left waiting for ever
SpecLive == InitCache /\ [][NextStream]_vars /\ WF_vars(HandlerStep("h1"))

\* The handler threads running concurrently over the shared cache, every
\* request authorized and every fetch answered.
NextCache ==
    \/ Tick
    \/ \E h \in HandlerIds :
          \/ ArriveValid(h) /\ UNCHANGED calls
          \/ L35(h) /\ UNCHANGED calls
          \/ L36(h) /\ UNCHANGED calls
          \/ L39(h) /\ UNCHANGED calls
          \/ L78(h) /\ UNCHANGED calls
          \/ Extracted(h) /\ UNCHANGED calls
          \/ FetchedPlain(h) /\ UNCHANGED calls

SpecCache == InitCache /\ [][NextCache]_vars

\* a request for the first video with a playback token issued for it
ArriveFirst(h) ==
    \E u \in UserIds :
        get_stream(h, HexIds[1],
                   generate_playback_token(HexIds[1], u, now, now))

\* the same for the requests for one video, with the history recorded
NextLog ==
    \/ Tick
    \/ \E h \in HandlerIds :
          \/ ArriveFirst(h) /\ calls' = LogBegin(h)
          \/ L39(h) /\ calls' = LogEvict(h)
          \/ \E info \in Infos(local[h].youtube_id) :
                L78r(h, info) /\ calls' = LogDone(h, info)
          \/ L35(h) /\ UNCHANGED calls
          \/ L36(h) /\ UNCHANGED calls
          \/ L78(h) /\ UNCHANGED calls
          \/ FetchedPlain(h) /\ UNCHANGED calls

SpecLog == InitCache /\ [][NextLog]_vars

\* One client asking for the first video again and again through one
\* handler thread, the extractor and the upstream answering anything.
NextRetry ==
    \/ Tick
    \/ ArriveFirst("h1") /\ UNCHANGED calls
    \/ L35("h1") /\ UNCHANGED calls
    \/ L36("h1") /\ UNCHANGED calls
    \/ L39("h1") /\ UNCHANGED calls
    \/ L78("h1") /\ UNCHANGED calls
    \/ Extracted("h1") /\ UNCHANGED calls
    \/ Fetched("h1") /\ UNCHANGED calls

SpecRetry == InitCache /\ [][NextRetry]_vars

\* the clock readings of a handler that runs within the current second
NowReads == {[i \in 1..4 |-> now]}

\* the four generate functions called within the current second
IssueNow ==
    \E id \in {HexIds[1]}, u \in UserIds, r \in NowReads :
        \/ issue(generate_access_token(u, r[1], r[2]), r)
        \/ issue(generate_refresh_token(u, r[1], r[2]), r)
        \/ issue(generate_playback_token(id, u, r[1], r[2]), r)
        \/ issue(generate_internal_token(id, u, r[1], r[2]), r)

\* The state CACHE_DURATION seconds after the first video was resolved at
\* clock 0: its cache entry has just become stale.
InitFrame ==
    /\ now = CACHE_DURATION
    /\ ticks = 0
    /\ secrets = DefaultSecrets
    /\ users = UserIds
    /\ videos = Seeded(1)
    /\ seeds = 1
    /\ issued = {}
    /\ token_blacklist = {}
    /\ _url_cache \in {cache_url(Empty, "y1", u, 0) : u \in UrlsOf("y1")}
    /\ pc = [h \in HandlerIds |-> "idle"]
    /\ local = [h \in HandlerIds |-> IdleLocal]
    /\ response = NoResponse
    /\ calls = NoCalls
    /\ watch_history = NoHistory
    /\ registered = <<>>

\* The token operations beside the relay, within one second: tokens of
\* every tier are generated, clients rotate them and log out, while one
\* handler thread resolves and streams the first video.
NextFrame ==
    \/ \E token \in Presentable, r \in NowReads : refresh_tokens(token, r)
    \/ \E token \in Presentable : logout(token)
    \/ IssueNow
    \/ ArriveFirst("h1") /\ UNCHANGED calls
    \/ L35("h1") /\ UNCHANGED calls
    \/ L36("h1") /\ UNCHANGED calls
    \/ L39("h1") /\ UNCHANGED calls
    \/ L78("h1") /\ UNCHANGED calls
    \/ ExtractedDirect("h1") /\ UNCHANGED calls
    \/ FetchedPlain("h1") /\ UNCHANGED calls

SpecFrame == InitFrame /\ [][NextFrame]_vars

\* a request for the first video with any token a client holds
ArriveHolding(h) ==
    \E token \in issued : get_stream(h, HexIds[1], token)

\* A client through the life of its tokens: it logs in, obtains a playback
\* token for the first video, logs out; its user document may be deleted;
\* the clock jumps to the expiry instants; at any time it asks the relay
\* for the video with a token it holds.
NextPlayback ==
    \/ Tick
    \/ \E email \in UserIds, r \in NowReads : login(email, TRUE, r)
    \/ \E token \in issued, r \in NowReads :
          get_video_info(token, HexIds[1], r)
    \/ \E token \in issued : logout(token)
    \/ \E user_id \in UserIds : user_removed(user_id)
    \/ ArriveHolding("h1") /\ UNCHANGED calls
    \/ L35("h1") /\ UNCHANGED calls
    \/ L36("h1") /\ UNCHANGED calls
    \/ L39("h1") /\ UNCHANGED calls
    \/ L78("h1") /\ UNCHANGED calls
    \/ ExtractedDirect("h1") /\ UNCHANGED calls
    \/ FetchedPlain("h1") /\ UNCHANGED calls

SpecPlayback == InitFrame /\ [][NextPlayback]_vars

\* A catalogue whose videos are being retired: a client logs in, lists the
\* dashboard, asks for the info of a video and for its stream with any
\* token it holds, while videos are deactivated; all within one second.
NextRetired ==
    \/ \E video_id \in SeedIds(1) : video_deactivated(video_id)
    \/ \E email \in UserIds, r \in NowReads : login(email, TRUE, r)
    \/ \E token \in issued, video_id \in SeedIds(1), r \in NowReads :
          get_video_info(token, video_id, r)
    \/ \E token \in issued, r \in NowReads : get_dashboard(token, 1, 2, r)
    \/ ArriveHolding("h1") /\ UNCHANGED calls
    \/ L35("h1") /\ UNCHANGED calls
    \/ L36("h1") /\ UNCHANGED calls
    \/ L78("h1") /\ UNCHANGED calls
    \/ ExtractedDirect("h1") /\ UNCHANGED calls
    \/ FetchedPlain("h1") /\ UNCHANGED calls

SpecRetired == InitCache /\ [][NextRetired]_vars

\* Clients signing up, each request in a handler thread of its own.
NextSignup ==
    \/ \E h \in HandlerIds, data \in SignupBodies : signup(h, data)
    \/ \E h \in HandlerIds, r \in NowReads : L69(h, r)

SpecSignup == InitCache /\ [][NextSignup]_vars

\* Clients reporting their watch progress on the first video, each request
\* in a handler thread of its own.
NextWatch ==
    \/ \E email \in UserIds, r \in NowReads : login(email, TRUE, r)
    \/ \E h \in HandlerIds, token \in Presentable,
          video_id \in {HexIds[1], "zz"}, duration \in Durations,
          completed \in Completions :
          track_watch(h, token, video_id, duration, completed)
    \/ \E h \in HandlerIds : L95(h)

SpecWatch == InitCache /\ [][NextWatch]_vars

\* One client reporting its watch progress, one request after the other.
NextSequel ==
    \/ \E email \in UserIds, r \in NowReads : login(email, TRUE, r)
    \/ \E token \in Presentable, video_id \in {HexIds[1], "zz"},
          duration \in Durations, completed \in Completions :
          track_watch("h1", token, video_id, duration, completed)
    \/ L95("h1")

SpecSequel == InitCache /\ [][NextSequel]_vars

\* The session routes of auth.py: clients log in, rotate their tokens,
\* ask for their profile and log out, while users may disappear from the
\* store.
\* the clock readings of a handler that runs within one second: this
\* one, or the last one the clock may reach meanwhile
SessionReads ==
    {[i \in 1..4 |-> t] :
        t \in {now, now + IF ticks < MaxTicks THEN MaxDrift ELSE 0}}

\* the application as it is configured when the environment sets no keys
InitSession == Init /\ secrets = DefaultSecrets

NextSession ==
    \/ Tick
    \/ \E email \in UserIds \cup {"nobody"}, ok \in BOOLEAN,
          r \in SessionReads : login(email, ok, r)
    \/ \E token \in Presentable, r \in SessionReads :
          refresh_tokens(token, r)
    \/ \E token \in Presentable : get_profile(token)
    \/ \E token \in Presentable : logout(token)
    \/ \E user_id \in UserIds : user_removed(user_id)

SpecSession == InitSession /\ [][NextSession]_vars

\* A client browsing the catalogue: it logs in, lists the dashboard pages
\* (the first listing seeds the collection) and asks for the info of any
\* video id.  Each handler runs within the second in which it began.
NextCatalog ==
    \/ Tick
    \/ \E email \in UserIds, r \in NowReads : login(email, TRUE, r)
    \/ \E token \in Presentable, video_id \in RequestIds,
          r \in NowReads : get_video_info(token, video_id, r)
    \/ \E token \in Presentable, page \in 1..2, limit \in 1..2,
          r \in NowReads : get_dashboard(token, page, limit, r)

SpecCatalog == Init /\ [][NextCatalog]_vars

\* a request with any token of StreamTokens, or with a playback token just
\* issued for the very video_id text of the URL, stored or not
ArriveAny(h) ==
    \E video_id \in RequestIds :
        \E token \in StreamTokens
                     \cup {generate_playback_token(video_id, u, now, now) :
                              u \in UserIds} :
            get_stream(h, video_id, token)

\* One handler thread of the relay, any request, the extractor answering
\* anything (a URL, formats with or without a compatible one, an
\* exception), every fetch answered.
NextErrors ==
    \/ Tick
    \/ ArriveAny("h1") /\ UNCHANGED calls
    \/ L35("h1") /\ UNCHANGED calls
    \/ L36("h1") /\ UNCHANGED calls
    \/ L39("h1") /\ UNCHANGED calls
    \/ L78("h1") /\ UNCHANGED calls
    \/ Extracted("h1") /\ UNCHANGED calls
    \/ FetchedPlain("h1") /\ UNCHANGED calls

SpecErrors == InitCache /\ [][NextErrors]_vars

\* what a client can put where a token is expected, at any endpoint: a
\* token it was given by login or the rotation, however old, no token, a
\* malformed one, or a playback token for the first video, issued just
\* now, in its last second or just expired
Offered ==
    Presentable
    \cup {generate_playback_token(HexIds[1], u, t, t) :
             u \in UserIds, t \in IssueTimes}

\* a request that the relay turns away at its token checks
ArriveRejected(h) ==
    \E video_id \in {HexIds[1], "zz"}, token \in Offered :
        /\ stream_auth(video_id, token, now) # NoResponse
        /\ get_stream(h, video_id, token)

\* Clients offering any token to a jwt_required route and to the rotation,
\* and tokens the relay does not accept to the relay, under either
\* configuration of the keys.
NextReject ==
    \/ Tick
    \/ \E email \in UserIds, r \in SessionReads : login(email, TRUE, r)
    \/ \E token \in Offered : get_profile(token)
    \/ \E token \in Offered, r \in SessionReads : refresh_tokens(token, r)
    \/ ArriveRejected("h1") /\ UNCHANGED calls

SpecReject == InitRelay /\ [][NextReject]_vars

(***************************************************************************)
(* The token tiers (SpecTokens)                                            *)
(***************************************************************************)
\* C1: a token produced by a tier's generate function is accepted by the
\* same tier's decode function, with the claims it was issued with, at
\* every clock reading from its issue up to but excluding its exp, and is
\* rejected (None) at every clock reading at or after its exp; for all
\* four tiers.
C1_RoundTrip ==
    \A token \in issued :
        /\ (token.iat <= now /\ now < token.exp)
              => Decode(token.type, token, now) = Payload(token)
        /\ (now >= token.exp)
              => Decode(token.type, token, now) = NonePayload

\* one token rejected at exactly its exp while another, issued a second
\* later, is accepted in its last second
C1_AtExpiry ==
    \E a \in issued, b \in issued :
        /\ now = a.exp
        /\ Decode(a.type, a, now) = NonePayload
        /\ now = b.exp - 1
        /\ Decode(b.type, b, now) = Payload(b)

\* C2: a token generated for one tier is rejected (None) by the decode
\* function of every other tier, at any time and for any user or video,
\* whether the tiers' keys differ or not; so the relay answers 401 to an
\* access, refresh or internal token presented as playback token, and
\* jwt_required answers 401 to a refresh, playback or internal token
\* presented in the Authorization header.
C2_TierSeparation ==
    \A token \in issued :
        /\ \A tier \in Tiers \ {token.type} :
              Decode(tier, token, now) = NonePayload
        /\ token.type # "playback" =>
              \A video_id \in RequestIds :
                  stream_auth(video_id, token, now) =
                      Json("stream", 401, "Invalid or expired playback token")
        /\ token.type # "access" =>
              jwt_required("info", token, now) =
                  Json("info", 401, "Invalid or expired token")

\* an unexpired refresh token whose signature the access and the playback
\* keys verify, turned away by both on its type claim alone
C2_SameKeyOtherTier ==
    \E token \in issued :
        /\ token.type = "refresh"
        /\ now < token.exp
        /\ jwt_decode(token, secrets["access"], now).err = None
        /\ jwt_decode(token, secrets["playback"], now).err = None
        /\ jwt_required("info", token, now).status = 401
        /\ stream_auth(HexIds[1], token, now).status = 401

(***************************************************************************)
(* The relay's authorization, one handler (SpecAuth)                       *)
(***************************************************************************)
\* the request went past the authorization of lines 190-204: the video is
\* looked up (404) or resolved
PastAuthorization ==
    \/ pc'["h1"] = "L35"
    \/ response' = Json("stream", 404, "Video not found")

\* C3: when get_stream is given a playback token that decodes (valid and
\* unexpired), the request goes past authorization only if the token's
\* video_id equals the requested media id exactly; when they differ the
\* answer is 403 "Token does not match video", the handler stops, and the
\* answer is never the 401 of a failed authentication.
C3_VideoBinding ==
    [][\A video_id \in RequestIds, token \in StreamTokens :
          (/\ get_stream("h1", video_id, token)
           /\ decode_playback_token(token, now) # NonePayload)
          => /\ PastAuthorization => token.video_id = video_id
             /\ token.video_id # video_id =>
                   /\ response' =
                         Json("stream", 403, "Token does not match video")
                   /\ pc'["h1"] = "idle"]_vars

\* a request turned away with 403
C3_Forbidden == response = Json("stream", 403, "Token does not match video")

(***************************************************************************)
(* The cache under concurrent handlers (SpecCache)                         *)
(***************************************************************************)
\* the entry of the source that handler h resolves is stale now
Stale(h) ==
    /\ local[h].youtube_id \in DOMAIN _url_cache
    /\ now - _url_cache[local[h].youtube_id][2] >= CACHE_DURATION

\* C4: get_cached_url returns a URL only from an entry with
\* now - timestamp < 300; an entry with now - timestamp >= 300 (exactly 300
\* included) is not returned: the call goes on to line 39, and at line 39
\* it removes that stale entry from the cache and reports a miss.
C4_StaleEvicted ==
    [][\A h \in HandlerIds :
          /\ (L36(h) /\ pc'[h] = "L230") =>
                /\ ~Stale(h)
                /\ local'[h].url = _url_cache[local[h].youtube_id][1]
          /\ (L36(h) /\ Stale(h)) => pc'[h] = "L39"
          /\ L39(h) =>
                /\ Stale(h)
                /\ _url_cache' = Del(_url_cache, local[h].youtube_id)
                /\ pc'[h] = "L78"]_vars

\* C6: no two extractor invocations are in flight for the same source id at
\* the same time: of the handlers that miss concurrently, one calls the
\* extractor and the others do not.
C6_SingleFlight ==
    \A g \in HandlerIds, h \in HandlerIds :
        (g # h /\ pc[g] = "extracting" /\ pc[h] = "extracting")
        => local[g].youtube_id # local[h].youtube_id

\* C7: under every interleaving of the handlers, a call of get_cached_url
\* ends with a stored URL or with a miss, never with an exception.
C7_NoLookupError == response # Unhandled("stream", "KeyError")

(***************************************************************************)
(* Resolutions of one source, with their history (SpecLog)                 *)
(***************************************************************************)
\* the logged resolutions that returned a URL
Resolved == {i \in 1..Len(calls.done) : Truthy(calls.done[i].url)}

\* C5: of the resolutions of one source id that all occurred within 300
\* seconds -- as all have while the clock, started at 0, is below 300 --
\* at most one has invoked the extractor, and all returned the same URL.
\* Resolutions that failed are left out of the count.
C5_OneExtraction ==
    now < CACHE_DURATION =>
        \A i \in Resolved, j \in Resolved :
            calls.done[i].src = calls.done[j].src
            => i = j /\ calls.done[i].url = calls.done[j].url

\* C8: a resolution that fails returns no URL and leaves the cache as it
\* was, apart from having evicted a stale entry of its own source: it has
\* removed no entry that was not stale, its failing step changes no entry
\* and creates none, and the cache never holds a value that is not a URL.
C8_FailureLeavesCache ==
    /\ [](/\ \A i \in 1..Len(calls.done) :
               ~Truthy(calls.done[i].url) => calls.done[i].evicted # "fresh"
          /\ \A y \in DOMAIN _url_cache : Truthy(_url_cache[y][1]))
    /\ [][\A h \in HandlerIds :
             pc[h] = "extracting" =>
                \A info \in Infos(local[h].youtube_id) :
                    (L78r(h, info) /\ ~Truthy(SelectUrl(info)))
                    => /\ _url_cache' = _url_cache
                       /\ response' =
                             Json("stream", 500,
                                  "Failed to extract video stream")]_vars

(***************************************************************************)
(* The relayed response (SpecStream)                                       *)
(***************************************************************************)
\* C9: a relayed stream has status 206 if and only if the request carried
\* a Range header and the upstream replied 206, and status 200 otherwise.
C9_RangeStatus ==
    response.body = "upstream" =>
        /\ response.status \in {200, 206}
        /\ response.status = 206
              <=> (response.range # None /\ response.upstream = 206)

\* C10: the relay never answers with a stream (200 or 206, the upstream's
\* body) when the upstream's status is outside 200..299; it reports an
\* error instead.
C10_UpstreamError ==
    response.body = "upstream" => response.upstream \in 200..299

\* C11: every streamed response carries Accept-Ranges: bytes; its
\* Content-Type is the upstream's, or video/mp4 when the upstream sent none;
\* it carries Content-Length and Content-Range exactly when the upstream
\* did (None stands for an absent header), with the upstream's value.  A
\* request with Range: bytes=0-999 answered upstream by 206 with
\* Content-Range: bytes 0-999/5000 gets 206 with that Content-Range.
C11_HeaderMapping ==
    [][\A range_header \in RangeHeaders, reply \in Replies :
          (L230("h1", range_header, reply) /\ ~reply.raised)
          => /\ response'.body = "upstream"
             /\ response'.accept_ranges = "bytes"
             /\ response'.content_type =
                   (IF reply.content_type = None THEN "video/mp4"
                    ELSE reply.content_type)
             /\ response'.content_length = reply.content_length
             /\ response'.content_range = reply.content_range
             /\ (/\ range_header = "bytes=0-999"
                 /\ reply.status_code = 206
                 /\ reply.content_range = "bytes 0-999/5000")
                => /\ response'.status = 206
                   /\ response'.content_range = "bytes 0-999/5000"]_vars

\* a ranged request relayed as 206 with the upstream's headers
C11_PartialContent ==
    /\ response.body = "upstream"
    /\ response.range = "bytes=0-999"
    /\ response.status = 206
    /\ response.accept_ranges = "bytes"
    /\ response.content_type = "video/webm"
    /\ response.content_length = "1000"
    /\ response.content_range = "bytes 0-999/5000"

(***************************************************************************)
(* Sessions (SpecSession)                                                  *)
(***************************************************************************)
\* C12: whenever refresh_tokens succeeds for a refresh token R, the refresh
\* token it returns differs from R, and when R came in the previous
\* response, the access token it returns differs from the access token
\* of that response (the one issued together with R); at any time of the
\* call, the second of R's issue included.
C12_RotationIsFresh ==
    [][(response'.route = "refresh" /\ response'.status = 200) =>
          \A R \in Presentable, r \in SessionReads :
              refresh_tokens(R, r)
              => /\ response'.refresh_token # R
                 /\ response.refresh_token = R
                    => response'.access_token # response.access_token]_vars

\* C13: refresh_tokens given a refresh token that decodes (correctly
\* signed, unexpired) succeeds only if the token's user is in the store
\* at the call; when the user is gone it answers 401 "User not found",
\* returns no token and hands none out.
C13_RotationChecksUser ==
    [][response'.route = "refresh" =>
          \A R \in Presentable, r \in SessionReads :
              (/\ decode_refresh_token(R, now) # NonePayload
               /\ refresh_tokens(R, r))
              => /\ response'.status = 200 => R.user_id \in users
                 /\ R.user_id \notin users
                    => /\ response' = Json("refresh", 401, "User not found")
                       /\ response'.access_token = NoToken
                       /\ response'.refresh_token = NoToken
                       /\ issued' = issued]_vars

\* a rotation refused because the user is gone, the token still valid
C13_UserGone ==
    /\ response = Json("refresh", 401, "User not found")
    /\ \E R \in issued :
          /\ decode_refresh_token(R, now) # NonePayload
          /\ R.user_id \notin users

\* C14: a refresh token handed out earlier is accepted by refresh_tokens
\* (200, with a new pair) whenever it is presented before its exp while
\* its user is in the store, whatever rotations and logouts have happened
\* since it was issued.
C14_OldTokenStillAccepted ==
    [][response'.route = "refresh" =>
          \A R \in issued, r \in SessionReads :
              (/\ R.type = "refresh"
               /\ now < R.exp
               /\ R.user_id \in users
               /\ refresh_tokens(R, r))
              => /\ response'.status = 200
                 /\ response'.refresh_token # NoToken
                 /\ response'.access_token # NoToken]_vars

\* after a logout, a rotation later than the issue of a refresh token R
\* has succeeded, and R still decodes
C14_AfterRotationAndLogout ==
    /\ token_blacklist # {}
    /\ response.route = "refresh"
    /\ response.status = 200
    /\ \E R \in issued :
          /\ R.type = "refresh"
          /\ R.iat < response.refresh_token.iat
          /\ decode_refresh_token(R, now) # NonePayload
          /\ R.user_id \in users

\* the routes behind jwt_required
ProtectedRoutes == {"dashboard", "me", "info", "watch", "stats", "logout"}

\* C20: once a logout carrying access token T has succeeded (T is in
\* token_blacklist), jwt_required turns away every request that presents
\* T, on every protected route, also before T's exp.
C20_LogoutInvalidates ==
    \A T \in token_blacklist :
        \A route \in ProtectedRoutes :
            jwt_required(route, T, now) # NoResponse

(***************************************************************************)
(* Forged tokens (SpecTokens)                                              *)
(***************************************************************************)
\* what the holder of a signing key can make at clock now: HS256 tokens
\* over any claims (any type tag, user, video, and an exp in the future)
Forgeable(key) ==
    {Token(key, type, user_id, video_id, exp, now) :
        type \in Tiers, user_id \in UserIds, video_id \in {None, HexIds[1]},
        exp \in {now + 1, now + REFRESH_TOKEN_EXPIRES}}

\* C15: whoever knows the signing key of one tier and not that of another
\* (the keys differ) cannot make a token that the other tier's decode
\* function accepts, whatever claims they sign; so with the playback key
\* alone nothing passes decode_access_token or decode_refresh_token.
C15_TierIsolation ==
    \A leaked \in Tiers, tier \in Tiers :
        secrets[tier] # secrets[leaked] =>
            \A token \in Forgeable(secrets[leaked]) :
                Decode(tier, token, now) = NonePayload

\* an access token is accepted while its copy signed with the playback
\* key, which that key verifies, is turned away by decode_access_token
C15_ForgedCopy ==
    /\ secrets["access"] # secrets["playback"]
    /\ \E genuine \in issued :
          /\ genuine.type = "access"
          /\ decode_access_token(genuine, now) # NonePayload
          /\ LET forged == [genuine EXCEPT !.key = secrets["playback"],
                                           !.exp = now + 1, !.iat = now]
             IN  /\ forged \in Forgeable(secrets["playback"])
                 /\ jwt_decode(forged, secrets["playback"], now).err = None
                 /\ decode_access_token(forged, now) = NonePayload
                 /\ decode_refresh_token(forged, now) = NonePayload

(***************************************************************************)
(* What response bodies reveal (SpecCatalog)                               *)
(***************************************************************************)
\* the texts of a response body: the error message, the upstream headers
\* it copies, its tokens' claims, and every field of every video entry
BodyTexts(resp) ==
    {resp.error, resp.content_type, resp.content_length, resp.content_range}
    \cup {resp.access_token.user_id, resp.refresh_token.user_id}
    \cup UNION {{resp.videos[i].id,
                 resp.videos[i].playback_token.video_id,
                 resp.videos[i].playback_token.user_id}
                \cup {resp.videos[i].thumbnail_url[k] :
                         k \in DOMAIN resp.videos[i].thumbnail_url} :
                i \in DOMAIN resp.videos}

\* the youtube_id and the cached direct URLs of the stored videos
SourceTexts ==
    {videos[id].youtube_id : id \in DOMAIN videos}
    \cup {_url_cache[y][1] : y \in DOMAIN _url_cache}

\* C16: no field of a response body sent to a client contains the
\* youtube_id of a stored video or a direct URL resolved for it, for the
\* seeded videos as for any other.
C16_SourceIdHidden == BodyTexts(response) \cap SourceTexts = {}

(***************************************************************************)
(* The relay's error answers (SpecErrors)                                  *)
(***************************************************************************)
\* C17: a relay request with no token, or with a token that
\* decode_playback_token turns away (malformed, wrongly signed, of another
\* type, expired), is answered 401 unauthorized whatever the video id; a
\* request with a valid playback token bound to a video id that is not in
\* the videos collection is answered 404 "Video not found"; and when the
\* extractor yields no usable URL the handler ends with an error answer
\* and streams nothing.
C17_ErrorTaxonomy ==
    [][/\ \A video_id \in RequestIds :
            \A token \in StreamTokens
                         \cup {generate_playback_token(video_id, u, now, now) :
                                  u \in UserIds} :
                get_stream("h1", video_id, token) =>
                    /\ (\/ token = NoToken
                        \/ decode_playback_token(token, now) = NonePayload)
                       => /\ response'.status = 401
                          /\ response'.body = "json"
                          /\ pc'["h1"] = "idle"
                    /\ (/\ token # NoToken
                        /\ decode_playback_token(token, now) # NonePayload
                        /\ decode_playback_token(token, now).video_id
                              = video_id
                        /\ Video_find_by_id(videos, video_id) = None)
                       => /\ response' =
                                Json("stream", 404, "Video not found")
                          /\ pc'["h1"] = "idle"
       /\ \A info \in Infos(local["h1"].youtube_id) :
            (L78r("h1", info) /\ ~Truthy(SelectUrl(info))) =>
                /\ response'.status >= 400
                /\ response'.body = "json"
                /\ pc'["h1"] = "idle"]_vars

(***************************************************************************)
(* What a rejection tells the client (SpecReject)                          *)
(***************************************************************************)
\* the tokens offered that a tier's decode function turns away at clock
\* now: expired ones with a good signature and type, and malformed,
\* wrongly signed and wrong-type ones
Rejected(tier) == {T \in Offered \ {NoToken} : Decode(tier, T, now) = NonePayload}

\* among them, those turned away for their expiry alone
Expired(tier) ==
    {T \in Rejected(tier) :
        /\ jwt_decode(T, secrets[tier], now).err = "ExpiredSignatureError"
        /\ T.type = tier}

\* C18: at one endpoint, a request with an expired but correctly signed
\* token and a request with a malformed, wrongly signed or wrong-type
\* token get the same status and the same body: on the jwt_required
\* routes, at the rotation and at the relay no such request can be
\* answered with anything but the endpoint's single 401 message,
\* whichever token it carries.
C18_ExpiredLikeInvalid ==
    /\ \A T \in Rejected("access") :
          /\ \A route \in ProtectedRoutes :
                jwt_required(route, T, now)
                    = Json(route, 401, "Invalid or expired token")
          /\ ~ENABLED (/\ get_profile(T)
                       /\ response'
                             # Json("me", 401, "Invalid or expired token"))
    /\ \A T \in Rejected("refresh") : \A r \in SessionReads :
          ~ENABLED (/\ refresh_tokens(T, r)
                    /\ response'
                          # Json("refresh", 401,
                                 "Invalid or expired refresh token"))
    /\ \A T \in Rejected("playback") : \A video_id \in {HexIds[1], "zz"} :
          ~ENABLED (/\ get_stream("h1", video_id, T)
                    /\ response'
                          # Json("stream", 401,
                                 "Invalid or expired playback token"))

\* each endpoint has tokens of both kinds to turn away, and a request with
\* one of them has just been answered
C18_BothKinds ==
    /\ \A tier \in {"access", "refresh", "playback"} :
          /\ Expired(tier) # {}
          /\ Rejected(tier) \ Expired(tier) # {}
    /\ response \in {Json("me", 401, "Invalid or expired token"),
                     Json("refresh", 401, "Invalid or expired refresh token"),
                     Json("stream", 401, "Invalid or expired playback token")}

(***************************************************************************)
(* What a decode function tells its caller (SpecTokens)                    *)
(***************************************************************************)
\* the tokens that jwt.decode with a tier's key turns away for their
\* expiry alone: issued for the tier, correctly signed, exp reached
ExpiredOf(tier) ==
    {T \in issued :
        /\ T.type = tier
        /\ jwt_decode(T, secrets[tier], now).err = "ExpiredSignatureError"}

\* malformed, wrongly signed and wrong-type tokens for a tier
InvalidOf(tier) ==
    {Garbage}
    \cup {T \in issued : T.key # secrets[tier] \/ T.type # tier}

\* C19: for every tier, what the tier's decode function returns for an
\* expired but otherwise valid token differs from what it returns for a
\* malformed, wrongly signed or wrong-type token, so that the caller can
\* tell the two causes apart.
C19_CauseDistinguished ==
    \A tier \in Tiers :
        \A expired \in ExpiredOf(tier) : \A invalid \in InvalidOf(tier) :
            Decode(tier, expired, now) # Decode(tier, invalid, now)

(***************************************************************************)
(* Token lifetimes (SpecTokens)                                            *)
(***************************************************************************)
\* C21: for every token issued, exp - iat as encoded in the token is
\* exactly the lifetime configured for its tier (900, 604800, 300, 60 s),
\* wherever the second boundaries fall between the generate function's two
\* readings of the clock.
C21_FixedLifetime ==
    \A token \in issued : token.exp - token.iat = Lifetime(token.type)

(***************************************************************************)
(* Termination of a relay request (SpecLive)                               *)
(***************************************************************************)
\* C22: every get_stream invocation ends with a response: a handler that
\* has begun is idle again later; and when the extractor or the upstream
\* fetch raises (its 30 s timeout included) the handler ends at once with
\* a 500 error response and no stream.
C22_NoIndefiniteBlocking ==
    /\ (pc["h1"] # "idle") ~> (pc["h1"] = "idle")
    /\ [][/\ \A info \in Infos(local["h1"].youtube_id) :
               (L78r("h1", info) /\ info.raised) =>
                   /\ pc'["h1"] = "idle"
                   /\ response' = Json("stream", 500,
                                       "Failed to extract video stream")
          /\ \A range_header \in RangeHeaders, reply \in Replies :
               (L230("h1", range_header, reply) /\ reply.raised) =>
                   /\ pc'["h1"] = "idle"
                   /\ response' = Json("stream", 500, "Streaming failed")]_vars

\* a request has ended with the error of a fetch that raised
C22_TimedOut ==
    /\ pc["h1"] = "idle"
    /\ response = Json("stream", 500, "Streaming failed")

(***************************************************************************)
(* Failure while the body is streamed (SpecBody)                           *)
(***************************************************************************)
\* C23: when the upstream connection fails after the relay has begun to
\* stream the body, the response ends at the chunks relayed so far, none
\* of them other than a chunk received from the upstream, and the failure
\* goes through the relay's own error reporting, the except clause of
\* get_stream that logs "Streaming error".
C23_MidStreamFailure ==
    response.ended = "truncated" =>
        /\ response.sent <= response.received
        /\ response.status \in {200, 206}
        /\ response.caught = CaughtBy("requests.get")

(***************************************************************************)
(* Retrying a failed request (SpecRetry)                                   *)
(***************************************************************************)
\* C24: one get_stream invocation calls the extractor at most once and
\* issues at most one upstream GET (after either the handler goes on or
\* ends, never back); and when the last request failed at the upstream
\* fetch, the request that retries it does not take the locator from the
\* cache, the one whose fetch has just failed, but resolves the source
\* through the extractor.
C24_RetryResolvesAfresh ==
    [][/\ pc["h1"] = "extracting" =>
            pc'["h1"] \in {"extracting", "L230", "idle"}
       /\ pc["h1"] = "L230" => pc'["h1"] \in {"L230", "idle"}
       /\ (/\ response = Json("stream", 500, "Streaming failed")
           /\ L36("h1"))
          => pc'["h1"] # "L230"]_vars

(***************************************************************************)
(* The fallback scan of the format list (SpecRetry)                        *)
(***************************************************************************)
\* an entry meets the constraints: container mp4, a non-empty URL, a video
\* codec that starts with 'avc', no 'manifest' in the URL
Qualifies(f) ==
    /\ f.ext = "mp4"
    /\ Truthy(f.url)
    /\ f.vcodec # None
    /\ StartsWithAvc(f.vcodec)
    /\ ~HasManifest(f.url)

\* the URL of the last qualifying entry of a format list, "" if there is
\* none
LastQualifying(formats) ==
    LET is == {i \in 1..Len(formats) : Qualifies(formats[i])}
    IN  IF is = {} THEN ""
        ELSE formats[CHOOSE i \in is : \A j \in is : j <= i].url

\* C25: when the extractor's result has no direct URL, extract_video_url
\* returns the URL of the last entry of the format list that has container
\* mp4, a non-empty URL, a codec starting with 'avc' and no 'manifest' in
\* its URL, and no URL (the request ends with the extraction error) when
\* no entry qualifies; so never the URL of an entry that does not qualify.
C25_FallbackSelection ==
    [][\A info \in Infos(local["h1"].youtube_id) :
          (/\ L78r("h1", info)
           /\ ~info.raised
           /\ ~Truthy(info.url))
          => IF LastQualifying(info.formats) = ""
             THEN /\ pc'["h1"] = "idle"
                  /\ response' = Json("stream", 500,
                                      "Failed to extract video stream")
             ELSE /\ pc'["h1"] = "L230"
                  /\ local'["h1"].url = LastQualifying(info.formats)]_vars

(***************************************************************************)
(* The chain from access token to playback token (SpecCatalog)             *)
(***************************************************************************)
\* the response carries playback tokens that the presented access token
\* entitles to: the token is valid now, each playback token is made out
\* to its subject and to a video that is in the store
Entitled(token, resp, store) ==
    /\ decode_access_token(token, now) # NonePayload
    /\ \A i \in DOMAIN resp.videos :
          /\ resp.videos[i].playback_token.type = "playback"
          /\ resp.videos[i].playback_token.user_id
                = decode_access_token(token, now).user_id
          /\ resp.videos[i].playback_token.video_id \in DOMAIN store
          /\ resp.videos[i].playback_token.video_id = resp.videos[i].id

\* C26: get_video_info and get_dashboard issue playback tokens only in
\* answer to a request whose access token is valid at that moment, each
\* made out to that token's subject and to a video present in the store;
\* no other step hands out a playback token; and the relay's token check
\* lets through only playback tokens, so that a stream is preceded by the
\* issue of its playback token and that by a valid access token.
C26_TokenChain ==
    /\ \A token \in Presentable :
          /\ \A video_id \in RequestIds, r \in NowReads :
                ~ENABLED (/\ get_video_info(token, video_id, r)
                          /\ response'.status = 200
                          /\ ~Entitled(token, response', videos'))
          /\ \A page \in 1..2, limit \in 1..2, r \in NowReads :
                ~ENABLED (/\ get_dashboard(token, page, limit, r)
                          /\ response'.status = 200
                          /\ ~Entitled(token, response', videos'))
    /\ ~ENABLED (/\ NextCatalog
                 /\ \E T \in issued' \ issued :
                       /\ T.type = "playback"
                       /\ ~(/\ response'.route \in {"info", "dashboard"}
                            /\ response'.status = 200
                            /\ \E i \in DOMAIN response'.videos :
                                  response'.videos[i].playback_token = T))
    /\ \A T \in Presentable, video_id \in RequestIds :
          stream_auth(video_id, T, now) = NoResponse =>
              /\ T \in issued
              /\ T.type = "playback"
              /\ T.video_id \in DOMAIN videos

\* the dashboard has just answered with a playback token that the client
\* holds and that the relay accepts for its video
C26_Issued ==
    /\ response.route = "dashboard"
    /\ response.status = 200
    /\ \E i \in DOMAIN response.videos :
          /\ response.videos[i].playback_token \in issued
          /\ stream_auth(response.videos[i].id,
                         response.videos[i].playback_token, now)
                = NoResponse

(***************************************************************************)
(* Authorization before any resource (SpecAuth)                            *)
(***************************************************************************)
\* C27: get_stream touches the videos collection, the cache, the extractor
\* and the upstream only for a request whose playback token decodes and
\* names the requested id.  A request that fails a check ends at once
\* with the answer of the check, the cache as it was; and that answer is
\* the same whether the requested id is stored or not.
C27_AuthorizationFirst ==
    /\ \A video_id \in RequestIds, token \in StreamTokens :
          IF stream_auth(video_id, token, now) # NoResponse
          THEN ~ENABLED (/\ get_stream("h1", video_id, token)
                         /\ ~(/\ pc'["h1"] = "idle"
                              /\ _url_cache' = _url_cache
                              /\ response'
                                    = stream_auth(video_id, token, now)))
          ELSE /\ token # NoToken
               /\ decode_playback_token(token, now) # NonePayload
               /\ decode_playback_token(token, now).video_id = video_id
    /\ \A token \in StreamTokens :
          \A stored \in {id \in RequestIds :
                            Video_find_by_id(videos, id) # None} :
              \A unknown \in {id \in RequestIds :
                                 Video_find_by_id(videos, id) = None} :
                  (/\ stream_auth(stored, token, now) # NoResponse
                   /\ token.video_id # unknown)
                  => ~ENABLED (/\ get_stream("h1", unknown, token)
                               /\ response'
                                     # stream_auth(stored, token, now))

\* a request has been turned away with 401 while the cache holds an entry
C27_TurnedAway ==
    /\ pc["h1"] = "idle"
    /\ response = Json("stream", 401, "Invalid or expired playback token")
    /\ _url_cache # Empty

(***************************************************************************)
(* What the token operations leave alone (SpecFrame)                       *)
(***************************************************************************)
\* the step changes the cache, the denylist, the users or the videos
StoresChange ==
    \/ _url_cache' # _url_cache
    \/ token_blacklist' # token_blacklist
    \/ users' # users
    \/ videos' # videos

\* C28: generating a token of any tier and the rotation refresh_tokens
\* change neither the URL cache nor token_blacklist nor the users nor the
\* videos (decoding is a function of the token, the key and the clock and
\* changes nothing); token_blacklist is changed by logout alone, and the
\* cache by the eviction and the write of a resolution alone.
C28_TokenFrame ==
    /\ \A token \in Presentable, r \in NowReads :
          ~ENABLED (refresh_tokens(token, r) /\ StoresChange)
    /\ \A id \in {HexIds[1]}, u \in UserIds, r \in NowReads :
          /\ ~ENABLED (/\ issue(generate_access_token(u, r[1], r[2]), r)
                       /\ StoresChange)
          /\ ~ENABLED (/\ issue(generate_refresh_token(u, r[1], r[2]), r)
                       /\ StoresChange)
          /\ ~ENABLED (/\ issue(generate_playback_token(id, u, r[1], r[2]), r)
                       /\ StoresChange)
          /\ ~ENABLED (/\ issue(generate_internal_token(id, u, r[1], r[2]), r)
                       /\ StoresChange)
    /\ ~ENABLED (/\ NextFrame
                 /\ token_blacklist' # token_blacklist
                 /\ response' # Json("logout", 200, None))
    /\ ~ENABLED (/\ NextFrame
                 /\ _url_cache' # _url_cache
                 /\ pc["h1"] \notin {"L39", "extracting"})

\* a rotation has succeeded while the denylist and the cache hold entries
C28_RotatedBesideStores ==
    /\ response.route = "refresh"
    /\ response.status = 200
    /\ token_blacklist # {}
    /\ _url_cache # Empty

(***************************************************************************)
(* Watch progress (SpecWatch)                                              *)
(***************************************************************************)
\* C29: after any update_or_create calls for one user and video, also
\* calls run concurrently by different handler threads, there is exactly
\* one document for the pair and its watch_duration is the sum of the
\* watch_duration arguments of all the calls.
C29_WatchAccumulates ==
    (/\ \A h \in HandlerIds : pc[h] = "idle"
     /\ watch_history.requested > 0)
    => /\ Len(watch_history.docs) = 1
       /\ watch_history.docs[1].watch_duration = watch_history.requested

(***************************************************************************)
(* The content of the URL cache (SpecCache)                                *)
(***************************************************************************)
\* the non-empty URLs extract_video_url takes from what the extractor
\* returns for youtube_id
ResolvableTo(youtube_id) ==
    {SelectUrl(info) : info \in Infos(youtube_id)} \ {""}

\* a step creates the entry of youtube_id or overwrites it
Written(youtube_id) ==
    /\ youtube_id \in DOMAIN _url_cache'
    /\ \/ youtube_id \notin DOMAIN _url_cache
       \/ _url_cache'[youtube_id] # _url_cache[youtube_id]

\* handler h completes a successful resolution of youtube_id in this step
Resolves(h, youtube_id) ==
    /\ pc[h] = "extracting"
    /\ pc'[h] = "L230"
    /\ local[h].youtube_id = youtube_id
    /\ local'[h].url \in ResolvableTo(youtube_id)
    /\ _url_cache'[youtube_id] = <<local'[h].url, now>>

\* C30: every cache entry maps a source id to a non-empty URL that the
\* extractor returned for that same id, with a resolution time not after
\* the current time; an entry is created or overwritten only by a
\* successful resolution of its own key.
C30_CacheContent ==
    /\ [](\A y \in DOMAIN _url_cache :
             /\ y \in YoutubeIds
             /\ Truthy(_url_cache[y][1])
             /\ _url_cache[y][1] \in ResolvableTo(y)
             /\ _url_cache[y][2] <= now)
    /\ [][_url_cache' # _url_cache =>
             \A y \in YoutubeIds :
                 Written(y) => \E h \in HandlerIds : Resolves(h, y)]_vars

\* both source ids are cached, the first one by a resolution made after the
\* clock had advanced
C30_BothCached ==
    /\ DOMAIN _url_cache = YoutubeIds
    /\ _url_cache["y1"][2] > 0
    /\ _url_cache["y2"][1] \in ResolvableTo("y2")

(***************************************************************************)
(* The lifetime of a playback token (SpecPlayback)                         *)
(***************************************************************************)
\* the access tokens handed to the subject of playback token k
AccessOf(k) == {a \in issued : a.type = "access" /\ a.user_id = k.user_id}

\* C31: get_stream accepts a playback token at every time before the
\* token's exp, whether or not the access token that obtained it has
\* expired or was logged out and whether or not its subject still exists:
\* a request for the token's video is never turned away (400, 401, 403),
\* it goes on to the lookup of the video and the resolution.
C31_PlaybackSelfSufficient ==
    \A k \in issued :
        (k.type = "playback" /\ now < k.exp /\ pc["h1"] = "idle")
        => /\ ENABLED (get_stream("h1", k.video_id, k) /\ pc'["h1"] = "L35")
           /\ ~ENABLED (get_stream("h1", k.video_id, k) /\ pc'["h1"] # "L35")

\* the relay has accepted a request while the subject's document is gone
\* and every access token of the subject is expired, one of them logged
\* out as well
C31_AcceptedAfterSession ==
    /\ pc["h1"] = "L35"
    /\ users = {}
    /\ \E k \in issued :
          /\ k.type = "playback" /\ now < k.exp
          /\ AccessOf(k) # {}
          /\ \A a \in AccessOf(k) : a.exp <= now
          /\ AccessOf(k) \cap token_blacklist # {}

(***************************************************************************)
(* Signup (SpecSignup)                                                     *)
(***************************************************************************)
\* C32: the users collection holds at most one document per lower-cased,
\* trimmed email, and a signup for an email that is already registered
\* creates no document, also when two signups for one email run
\* concurrently.
C32_EmailUnique ==
    /\ \A i, j \in 1..Len(registered) :
          registered[i].email = registered[j].email => i = j
    /\ \A i \in 1..Len(registered), u \in users :
          registered[i].email # EmailOf(u)

(***************************************************************************)
(* Inactive videos (SpecRetired)                                           *)
(***************************************************************************)
\* C33: a playback token is issued only for videos whose is_active is
\* true, and get_stream never goes on to resolve and stream a video whose
\* is_active is false at the time of the request.
C33_InactiveNotPlayable ==
    \A video_id \in DOMAIN videos :
        ~videos[video_id].is_active
        => /\ \A token \in issued, r \in NowReads :
                 ~ENABLED (/\ get_video_info(token, video_id, r)
                           /\ response'.status = 200)
           /\ \A token \in issued :
                 ~ENABLED (/\ get_stream("h1", video_id, token)
                           /\ pc'["h1"] = "L35")

(***************************************************************************)
(* Completion (SpecSequel)                                                 *)
(***************************************************************************)
\* C34: with the calls of update_or_create for one user and video made one
\* after the other, a record whose completed is true keeps it true
\* whatever completed argument a later call reports, and the stored
\* watch_duration never decreases (the reported durations being
\* non-negative); the record is never removed.
C34_CompletionSticky ==
    [][/\ Len(watch_history'.docs) >= Len(watch_history.docs)
       /\ \A i \in 1..Len(watch_history.docs) :
             /\ watch_history.docs[i].completed = "True"
                => watch_history'.docs[i].completed = "True"
             /\ watch_history'.docs[i].watch_duration
                >= watch_history.docs[i].watch_duration]_vars

\* a call reporting completed true was followed by a call reporting false
\* or null, and the record is still completed, with both durations added
C34_StillCompleted ==
    /\ Len(watch_history.reported) = 2
    /\ watch_history.reported[1] = "True"
    /\ watch_history.reported[2] \in {"False", "None"}
    /\ Len(watch_history.docs) = 1
    /\ watch_history.docs[1].completed = "True"
    /\ watch_history.docs[1].watch_duration = watch_history.requested

=============================================================================
